---- MODULE Spec2Model ----
(***************************************************************************)
(* The task queue of jarvis/knowledge/task_queue.py: enqueue_task,          *)
(* fetch_and_lock_task, complete_task and fail_task on the SQLite backend   *)
(* and on the Redis backend, driven by worker processes that follow the     *)
(* poll loop of jarvis/ingestion/workers/processing.py.                     *)
(*                                                                         *)
(* Time is an integer clock.  A SQLite statement or transaction and a       *)
(* single Redis command (or MULTI/EXEC pipeline) is one atomic step.  The   *)
(* variable sched says how calls are issued: "serial" (a call starts only   *)
(* when no other call is running) or "concurrent" (the steps of the calls   *)
(* of different processes interleave freely).                               *)
(* created_at / updated_at are written but never read by the queue and are  *)
(* left out of the records.                                                 *)
(***************************************************************************)
EXTENDS Integers, Sequences, FiniteSets, TLC

\* ------------------------------------------------------------------ bounds
MaxTime == 1
MaxEnqueues == 2

\* ------------------------------------------------------- program constants
STATUS_PENDING == "pending"
STATUS_IN_PROGRESS == "in_progress"
STATUS_COMPLETED == "completed"
STATUS_FAILED == "failed"
PROMOTION_BATCH_SIZE == 128
LastErrorLimit == 1024

\* Python's None for an Optional[datetime] and for Optional[str].
NoTime == -1
NoError == [text |-> "None", len |-> 0]
NoFilter == {}
NoTask == [task_id |-> <<>>]

\* ------------------------------------------------------------------ inputs
Backends == {"sqlite", "redis"}
Procs == {"w1", "w2"}
TaskTypes == {"semantic_index", "entity_extract"}
\* A payload is a Python dict: its items in insertion order.
PayloadAB == << <<"content_id", "cid-1">>, <<"extractor", "llm">> >>
PayloadBA == << <<"extractor", "llm">>, <<"content_id", "cid-1">> >>
Payloads == {PayloadAB, PayloadBA}
\* --task-types of each worker process, passed to every fetch_and_lock_task
\* call it makes: w1 takes every task, w2 only semantic_index tasks.
TaskTypesOf(p) == IF p = "w1" THEN NoFilter ELSE {"semantic_index"}
\* lock_timeout_seconds, retry_delay_seconds, max_attempts arguments.
LockTimeouts == {1}
RetryDelays == {0, 1}
AttemptCeilings == {2}
\* available_at arguments of enqueue_task, as an offset from the call time
\* (NoTime: the argument is omitted).
AvailableOffsets == {NoTime, 1}
\* error arguments of fail_task: a string is its text tag and its length.
Errors == {[text |-> "boom", len |-> 1030]}

VARIABLES
    backend,   \* which backend the queue target selects (_is_redis_target)
    now,       \* the wall clock (_now)
    store,     \* task_id -> record: the task_queue table / the task:<id> keys
    ready,     \* Redis list <prefix>:ready
    delayed,   \* Redis sorted set <prefix>:delayed, task_id -> score
    inprog,    \* Redis sorted set <prefix>:in_progress, task_id -> score
    pc,        \* each worker's position in its loop or in a queue call
    held,      \* the Task a worker's fetch_and_lock_task returned, with the call's clock
    loc,       \* the locals of the queue call a worker is in
    enqueues,  \* number of enqueue_task calls made so far
    sched,     \* how calls are issued: "serial" or "concurrent"
    twin,      \* a SQLite queue given the same calls as the Redis queue (SpecPair)
    config,    \* the AppConfig of the deployment (load_settings)
    files,     \* SQLite database file -> its task_queue table
    call       \* the queue call a dispatcher is serving: operation, target, backend

vars == <<backend, now, store, ready, delayed, inprog, pc, held, loc, enqueues, sched, twin,
          config, files, call>>

\* --------------------------------------------------------- dict helpers
Put(f, k, v) == [x \in (DOMAIN f) \cup {k} |-> IF x = k THEN v ELSE f[x]]
Del(f, k) == [x \in (DOMAIN f) \ {k} |-> f[x]]
EmptyMap == [x \in {} |-> 0]
Min(a, b) == IF a <= b THEN a ELSE b

\* ------------------------------------------------------------ task identity
\* Alphabetical rank of the payload keys (json.dumps(..., sort_keys=True)).
KeyRank(k) == IF k = "content_id" THEN 1 ELSE 2

RemoveAt(s, i) == [j \in 1..(Len(s) - 1) |-> IF j < i THEN s[j] ELSE s[j + 1]]

RECURSIVE SortKeys(_)
SortKeys(p) ==
    IF p = <<>> THEN <<>>
    ELSE LET m == CHOOSE i \in 1..Len(p) :
                    \A j \in 1..Len(p) : KeyRank(p[i][1]) <= KeyRank(p[j][1])
         IN <<p[m]>> \o SortKeys(RemoveAt(p, m))

\* json.dumps(payload, sort_keys=True): the items in key order.
JsonDumps(payload) == SortKeys(payload)

\* A variant that hashes the payload in insertion order.
ComputeTaskIdUnsorted(task_type, payload) == <<task_type, payload>>

\* _compute_task_id: sha1 of "<task_type>:<sorted-key JSON>"; the digest is
\* represented by the string it hashes.
ComputeTaskId(task_type, payload) == <<task_type, JsonDumps(payload)>>

\* A last_error stored as given.
TruncateNone(error) == error

\* error[:1024]
Truncate(error) == [text |-> error.text, len |-> Min(error.len, LastErrorLimit)]

\* --------------------------------------------------------------------- Init
NoLocals == [now |-> NoTime, lease |-> 0, id |-> <<>>,
             data |-> <<>>, batch |-> <<>>, left |-> 0, args |-> <<>>]

\* No call is waiting to be given to the Redis queue.
NoCall == [op |-> "none"]

\* The twin queue as created: an empty table, every worker about to poll.
EmptyTwin ==
    [store |-> EmptyMap, pc |-> [p \in Procs |-> "idle"],
     held |-> [p \in Procs |-> NoTask], todo |-> NoCall]

\* The variables of a deployment: its configuration, its database files and the
\* dispatcher call being served.
deployVars == <<config, files, call>>

\* No configuration loaded, no database file opened, no dispatcher called.
NoValue == "<None>"
NoConfig == [database_path |-> NoValue, task_queue_url |-> NoValue]
NoDispatch == [op |-> "none", target |-> NoValue, backend |-> "none"]
Undeployed == config = NoConfig /\ files = EmptyMap /\ call = NoDispatch

\* A command writes or deletes the key task:<task_id>: an enqueue_task call that
\* has the key under WATCH will get a WatchError from its EXEC.
Touch(task_id) ==
    /\ call' = IF call.op = "watch" /\ call.target = task_id
               THEN [call EXCEPT !.op = "dirty"] ELSE call
    /\ UNCHANGED <<config, files>>

\* A worker between two queue calls: polling, sleeping after an empty poll, or
\* running a handler.
BetweenCalls == \A p \in Procs : pc[p] \in {"idle", "sleep", "handler", "crashed"}

\* Whether worker p may start a call now.
MayStart(p) ==
    sched = "concurrent"
       \/ \A q \in Procs \ {p} : pc[q] \in {"idle", "sleep", "handler", "crashed"}

EmptyQueue ==
    /\ backend \in Backends
    /\ now = 0
    /\ store = EmptyMap
    /\ ready = <<>>
    /\ delayed = EmptyMap
    /\ inprog = EmptyMap
    /\ pc = [p \in Procs |-> "idle"]
    /\ held = [p \in Procs |-> NoTask]
    /\ loc = [p \in Procs |-> NoLocals]
    /\ enqueues = 0
    /\ twin = EmptyTwin

\* A queue as created, outside any deployment.
InitEmpty == EmptyQueue /\ Undeployed

Init == InitEmpty /\ sched = "serial"

InitConcurrent == InitEmpty /\ sched = "concurrent"

redisVars == <<ready, delayed, inprog>>

\* ------------------------------------------------------------------- SQLite
\* An upsert that keeps the earlier of the stored and the new available_at.
SqliteUpsertInEarliest(table, task_id, task_type, payload, available) ==
    IF task_id \in DOMAIN table
    THEN Put(table, task_id,
             [table[task_id] EXCEPT
                 !.status = IF @ \in {STATUS_COMPLETED, STATUS_FAILED}
                            THEN STATUS_PENDING ELSE @,
                 !.available_at = Min(@, available)])
    ELSE Put(table, task_id,
             [task_type |-> task_type, status |-> STATUS_PENDING,
              payload |-> JsonDumps(payload), attempts |-> 0,
              available_at |-> available, locked_at |-> NoTime,
              last_error |-> NoError])

\* INSERT ... ON CONFLICT(task_id) DO UPDATE of _sqlite_enqueue_task.
SqliteUpsertIn(table, task_id, task_type, payload, available) ==
    IF task_id \in DOMAIN table
    THEN Put(table, task_id,
             [table[task_id] EXCEPT
                 !.status = IF @ \in {STATUS_COMPLETED, STATUS_FAILED}
                            THEN STATUS_PENDING ELSE @,
                 !.available_at = available])
    ELSE Put(table, task_id,
             [task_type |-> task_type, status |-> STATUS_PENDING,
              payload |-> JsonDumps(payload), attempts |-> 0,
              available_at |-> available, locked_at |-> NoTime,
              last_error |-> NoError])

SqliteUpsert(task_id, task_type, payload, available) ==
    SqliteUpsertIn(store, task_id, task_type, payload, available)

SqliteEnqueueTask(task_type, payload, available_at) ==
    LET task_id == ComputeTaskId(task_type, payload)
        available == IF available_at = NoTime THEN now ELSE available_at
    IN /\ store' = SqliteUpsert(task_id, task_type, payload, available)
       /\ UNCHANGED redisVars

\* The WHERE clause of _sqlite_fetch_and_lock_task.
SqliteCandidatesIn(table, types, tnow, lock_timeout) ==
    {id \in DOMAIN table :
        /\ types = NoFilter \/ table[id].task_type \in types
        /\ table[id].status \in {STATUS_PENDING, STATUS_IN_PROGRESS}
        /\ \/ table[id].status = STATUS_PENDING /\ table[id].available_at <= tnow
           \/ /\ table[id].status = STATUS_IN_PROGRESS
              /\ table[id].locked_at # NoTime
              /\ table[id].locked_at <= tnow - lock_timeout}

SqliteCandidates(types, tnow, lock_timeout) ==
    SqliteCandidatesIn(store, types, tnow, lock_timeout)

\* ORDER BY available_at DESC LIMIT 1.
SqliteFirstInNewest(table, cands) ==
    {id \in cands : \A o \in cands : table[id].available_at >= table[o].available_at}

\* ORDER BY available_at ASC LIMIT 1: any row of least available_at.
SqliteFirstIn(table, cands) ==
    {id \in cands : \A o \in cands : table[id].available_at <= table[o].available_at}

SqliteFirst(cands) == SqliteFirstIn(store, cands)

\* A claim that counts as an attempt.
SqliteLockRowCounting(row, tnow) ==
    [row EXCEPT !.status = STATUS_IN_PROGRESS, !.locked_at = tnow, !.attempts = @ + 1]

\* The UPDATE of _sqlite_fetch_and_lock_task on the selected row.
SqliteLockRow(row, tnow) == [row EXCEPT !.status = STATUS_IN_PROGRESS, !.locked_at = tnow]

\* The Task built from a record as read, plus the clock reading and the
\* lock_timeout_seconds of the call that returns it.
TaskOf(task_id, rec, locked_at, tnow, lease) ==
    [task_id |-> task_id, task_type |-> rec.task_type, payload |-> rec.payload,
     attempts |-> rec.attempts, available_at |-> rec.available_at,
     locked_at |-> locked_at, last_error |-> rec.last_error, at |-> tnow,
     lease |-> lease]

\* _sqlite_fetch_and_lock_task: one BEGIN IMMEDIATE transaction.
SqliteFetchAndLockTask(p, lock_timeout) ==
    /\ backend = "sqlite"
    /\ pc[p] = "idle"
    /\ MayStart(p)
    /\ LET cands == SqliteCandidates(TaskTypesOf(p), now, lock_timeout)
       IN IF cands = {}
          THEN /\ pc' = [pc EXCEPT ![p] = "sleep"]
               /\ UNCHANGED <<backend, sched, twin, deployVars, now, store, redisVars, held, loc, enqueues>>
          ELSE \E id \in SqliteFirst(cands) :
                /\ store' = Put(store, id, SqliteLockRow(store[id], now))
                /\ held' = [held EXCEPT ![p] =
                              TaskOf(id, store[id], store[id].locked_at, now, lock_timeout)]
                /\ pc' = [pc EXCEPT ![p] = "handler"]
                /\ UNCHANGED <<backend, sched, twin, deployVars, now, redisVars, loc, enqueues>>

\* A DELETE that removes the row only while it is in progress.
SqliteCompleteLeased(p) ==
    /\ backend = "sqlite"
    /\ pc[p] = "handler"
    /\ MayStart(p)
    /\ store' = IF held[p].task_id \in DOMAIN store
                    /\ store[held[p].task_id].status = STATUS_IN_PROGRESS
                 THEN Del(store, held[p].task_id) ELSE store
    /\ held' = [held EXCEPT ![p] = NoTask]
    /\ pc' = [pc EXCEPT ![p] = "idle"]
    /\ UNCHANGED <<backend, sched, twin, deployVars, now, redisVars, loc, enqueues>>

\* _sqlite_complete_task
SqliteCompleteTask(p) ==
    /\ backend = "sqlite"
    /\ pc[p] = "handler"
    /\ MayStart(p)
    /\ store' = Del(store, held[p].task_id)
    /\ held' = [held EXCEPT ![p] = NoTask]
    /\ pc' = [pc EXCEPT ![p] = "idle"]
    /\ UNCHANGED <<backend, sched, twin, deployVars, now, redisVars, loc, enqueues>>

\* _sqlite_fail_task, the SELECT attempts statement (run outside a transaction).
SqliteFailRead(p, error, retry_delay, max_attempts) ==
    /\ backend = "sqlite"
    /\ pc[p] = "handler"
    /\ MayStart(p)
    /\ LET id == held[p].task_id
           attempts == (IF id \in DOMAIN store THEN store[id].attempts ELSE 0) + 1
       IN loc' = [loc EXCEPT ![p] = [NoLocals EXCEPT
                    !.now = now, !.id = id,
                    !.args = [attempts |-> attempts, error |-> error,
                              retry_delay |-> retry_delay,
                              max_attempts |-> max_attempts]]]
    /\ pc' = [pc EXCEPT ![p] = "sqlite_fail_update"]
    /\ UNCHANGED <<backend, sched, twin, deployVars, now, store, redisVars, held, enqueues>>

\* Status chosen by fail_task for a new attempts count.
FailStatus(attempts, max_attempts) ==
    IF attempts < max_attempts THEN STATUS_PENDING ELSE STATUS_FAILED

\* The row the UPDATE of _sqlite_fail_task writes.
SqliteFailRow(row, a, tnow) ==
    [row EXCEPT !.status = FailStatus(a.attempts, a.max_attempts),
                !.attempts = a.attempts,
                !.available_at = tnow + a.retry_delay,
                !.locked_at = NoTime,
                !.last_error = Truncate(a.error)]

\* _sqlite_fail_task, the UPDATE statement.
SqliteFailUpdate(p) ==
    /\ backend = "sqlite"
    /\ pc[p] = "sqlite_fail_update"
    /\ LET id == loc[p].id
           a == loc[p].args
       IN store' = IF id \in DOMAIN store
                   THEN Put(store, id, SqliteFailRow(store[id], a, loc[p].now))
                   ELSE store
    /\ loc' = [loc EXCEPT ![p] = NoLocals]
    /\ held' = [held EXCEPT ![p] = NoTask]
    /\ pc' = [pc EXCEPT ![p] = "idle"]
    /\ UNCHANGED <<backend, sched, twin, deployVars, now, redisVars, enqueues>>

\* -------------------------------------------------------------------- Redis
LRem(list, task_id) == SelectSeq(list, LAMBDA x : x # task_id)

Take(s, n) == SubSeq(s, 1, Min(n, Len(s)))

SeqSet(s) == {s[i] : i \in 1..Len(s)}

\* ZRANGEBYSCORE key -inf max LIMIT 0 num: the members of score <= max in score
\* order; members of equal score come in the order of their digests, which the
\* model leaves open.
ZRangeByScore(zset, max, num) ==
    LET hit == {id \in DOMAIN zset : zset[id] <= max}
        tied[S \in SUBSET hit] ==
            IF S = {} THEN {<<>>}
            ELSE UNION {{<<id>> \o s : s \in tied[S \ {id}]} : id \in S}
        all[S \in SUBSET hit] ==
            IF S = {} THEN {<<>>}
            ELSE LET mid == CHOOSE x \in S :
                              /\ 2 * Cardinality({y \in S : zset[y] < zset[x]}) <= Cardinality(S)
                              /\ 2 * Cardinality({y \in S : zset[y] > zset[x]}) <= Cardinality(S)
                 IN {lo \o eq \o hi :
                        lo \in all[{y \in S : zset[y] < zset[mid]}],
                        eq \in tied[{y \in S : zset[y] = zset[mid]}],
                        hi \in all[{y \in S : zset[y] > zset[mid]}]}
    IN {Take(s, num) : s \in all[hit]}

\* A placement that pushes only tasks due strictly before the reference time.
RescheduleReadyStrict(list, task_id, available_at, reference) ==
    IF available_at < reference THEN Append(LRem(list, task_id), task_id)
    ELSE LRem(list, task_id)

\* _redis_reschedule_task: LREM ready, ZREM delayed, then RPUSH ready or ZADD delayed.
RescheduleReady(list, task_id, available_at, reference) ==
    IF available_at <= reference THEN Append(LRem(list, task_id), task_id)
    ELSE LRem(list, task_id)

RescheduleDelayed(zset, task_id, available_at, reference) ==
    IF available_at <= reference THEN Del(zset, task_id)
    ELSE Put(Del(zset, task_id), task_id, available_at)

\* The record _redis_enqueue_task writes over an existing one.
RedisMerge(old, task_type, payload, available) ==
    LET revived == IF old.status \in {STATUS_COMPLETED, STATUS_FAILED}
                   THEN [old EXCEPT !.attempts = 0, !.last_error = NoError]
                   ELSE old
    IN [revived EXCEPT !.task_type = task_type, !.payload = JsonDumps(payload),
                       !.available_at = available, !.status = STATUS_PENDING,
                       !.locked_at = NoTime]

\* _redis_enqueue_task: WATCH/GET, then one MULTI/EXEC; a WatchError retries, so
\* the call takes effect as one step on an unchanged record.
RedisEnqueueTask(task_type, payload, available_at) ==
    LET task_id == ComputeTaskId(task_type, payload)
        available == IF available_at = NoTime THEN now ELSE available_at
        task_data == IF task_id \in DOMAIN store
                     THEN RedisMerge(store[task_id], task_type, payload, available)
                     ELSE [task_type |-> task_type, status |-> STATUS_PENDING,
                           payload |-> JsonDumps(payload), attempts |-> 0,
                           available_at |-> available, locked_at |-> NoTime,
                           last_error |-> NoError]
    IN /\ store' = Put(store, task_id, task_data)
       /\ inprog' = Del(inprog, task_id)
       /\ ready' = RescheduleReady(ready, task_id, available, now)
       /\ delayed' = RescheduleDelayed(delayed, task_id, available, now)

\* enqueue_task: dispatch on the queue target.
EnqueueTask(task_type, payload, offset) ==
    /\ enqueues < MaxEnqueues
    /\ sched = "concurrent" \/ BetweenCalls
    /\ enqueues' = enqueues + 1
    /\ LET available_at == IF offset = NoTime THEN NoTime ELSE now + offset
       IN IF backend = "redis"
          THEN RedisEnqueueTask(task_type, payload, available_at)
          ELSE SqliteEnqueueTask(task_type, payload, available_at)
    /\ Touch(ComputeTaskId(task_type, payload))
    /\ UNCHANGED <<backend, sched, twin, now, pc, held, loc>>

\* _redis_enqueue_task run command by command, first half: now = _now(), then
\* WATCH task:<id> and GET.  The call is one more than those that loaded the
\* queue and takes the default available_at.
EnqueueWatch(task_type, payload) ==
    /\ backend = "redis"
    /\ call = NoDispatch
    /\ enqueues < MaxEnqueues + 1
    /\ call' = [op |-> "watch", target |-> ComputeTaskId(task_type, payload),
                backend |-> "redis",
                args |-> [task_type |-> task_type, payload |-> payload, now |-> now]]
    /\ UNCHANGED <<backend, sched, twin, config, files, now, store, redisVars, pc, held, loc,
                   enqueues>>

\* _redis_enqueue_task, second half: MULTI ... EXEC.  On a key written since
\* the WATCH, EXEC raises WatchError and `while True` runs WATCH and GET again;
\* otherwise the transaction takes effect and the call returns.
EnqueueExec ==
    /\ call.op \in {"watch", "dirty"}
    /\ IF call.op = "dirty"
       THEN /\ call' = [call EXCEPT !.op = "watch"]
            /\ UNCHANGED <<store, redisVars, enqueues>>
       ELSE /\ RedisEnqueueTask(call.args.task_type, call.args.payload, call.args.now)
            /\ enqueues' = enqueues + 1
            /\ call' = NoDispatch
    /\ UNCHANGED <<backend, sched, twin, config, files, now, pc, held, loc>>

Goto(p, label) == pc' = [pc EXCEPT ![p] = label]
SetLoc(p, l) == loc' = [loc EXCEPT ![p] = l]

\* fetch_and_lock_task returns None: the worker goes to sleep.
ReturnNone(p) ==
    /\ Goto(p, "sleep")
    /\ SetLoc(p, NoLocals)
    /\ held' = [held EXCEPT ![p] = NoTask]

\* time.sleep(poll_interval) is over: the worker polls again.
Wake(p) ==
    /\ pc[p] = "sleep"
    /\ Goto(p, "idle")
    /\ UNCHANGED <<backend, sched, twin, deployVars, now, store, redisVars, held, loc, enqueues>>

\* _redis_fetch_and_lock_task: now = _now()
RedisFetchStart(p, lock_timeout) ==
    /\ backend = "redis"
    /\ pc[p] = "idle"
    /\ MayStart(p)
    /\ SetLoc(p, [NoLocals EXCEPT !.now = now, !.lease = lock_timeout])
    /\ Goto(p, "requeue_scan")
    /\ UNCHANGED <<backend, sched, twin, deployVars, now, store, redisVars, held, enqueues>>

\* _requeue_stale_tasks: ZRANGEBYSCORE in_progress -inf cutoff
RequeueScan(p) ==
    /\ pc[p] = "requeue_scan"
    /\ \E stale \in ZRangeByScore(inprog, loc[p].now - loc[p].lease, PROMOTION_BATCH_SIZE) :
          IF stale = <<>>
          THEN Goto(p, "promote_scan") /\ UNCHANGED loc
          ELSE Goto(p, "requeue_get") /\ SetLoc(p, [loc[p] EXCEPT !.batch = stale])
    /\ UNCHANGED <<backend, sched, twin, deployVars, now, store, redisVars, held, enqueues>>

\* _requeue_stale_tasks: GET task:<id>
RequeueGet(p) ==
    /\ pc[p] = "requeue_get"
    /\ LET id == Head(loc[p].batch)
       IN IF id \in DOMAIN store
          THEN /\ SetLoc(p, [loc[p] EXCEPT !.id = id,
                     !.data = [store[id] EXCEPT !.status = STATUS_PENDING,
                                                !.locked_at = NoTime]])
               /\ Goto(p, "requeue_set")
          ELSE /\ SetLoc(p, [loc[p] EXCEPT !.id = id])
               /\ Goto(p, "requeue_zrem")
    /\ UNCHANGED <<backend, sched, twin, deployVars, now, store, redisVars, held, enqueues>>

\* _requeue_stale_tasks: SET task:<id>
RequeueSet(p) ==
    /\ pc[p] = "requeue_set"
    /\ store' = Put(store, loc[p].id, loc[p].data)
    /\ Goto(p, "requeue_resched")
    /\ Touch(loc[p].id)
    /\ UNCHANGED <<backend, sched, twin, now, redisVars, held, loc, enqueues>>

\* _requeue_stale_tasks: _redis_reschedule_task
RequeueResched(p) ==
    /\ pc[p] = "requeue_resched"
    /\ ready' = RescheduleReady(ready, loc[p].id, loc[p].data.available_at, loc[p].now)
    /\ delayed' = RescheduleDelayed(delayed, loc[p].id, loc[p].data.available_at, loc[p].now)
    /\ Goto(p, "requeue_zrem")
    /\ UNCHANGED <<backend, sched, twin, deployVars, now, store, inprog, held, loc, enqueues>>

\* _requeue_stale_tasks: ZREM in_progress, then the next id or the next scan
RequeueZrem(p) ==
    /\ pc[p] = "requeue_zrem"
    /\ inprog' = Del(inprog, loc[p].id)
    /\ SetLoc(p, [loc[p] EXCEPT !.batch = Tail(@), !.id = <<>>, !.data = <<>>])
    /\ Goto(p, IF Tail(loc[p].batch) = <<>> THEN "requeue_scan" ELSE "requeue_get")
    /\ UNCHANGED <<backend, sched, twin, deployVars, now, store, ready, delayed, held, enqueues>>

\* _promote_due_tasks: ZRANGEBYSCORE delayed -inf now
PromoteScan(p) ==
    /\ pc[p] = "promote_scan"
    /\ \E due \in ZRangeByScore(delayed, loc[p].now, PROMOTION_BATCH_SIZE) :
          IF due = <<>>
          THEN Goto(p, "llen") /\ UNCHANGED loc
          ELSE Goto(p, "promote_move") /\ SetLoc(p, [loc[p] EXCEPT !.batch = due])
    /\ UNCHANGED <<backend, sched, twin, deployVars, now, store, redisVars, held, enqueues>>

\* _promote_due_tasks: ZREM delayed *due, RPUSH ready *due in one pipeline
PromoteMove(p) ==
    /\ pc[p] = "promote_move"
    /\ delayed' = [id \in (DOMAIN delayed) \ SeqSet(loc[p].batch) |-> delayed[id]]
    /\ ready' = ready \o loc[p].batch
    /\ SetLoc(p, [loc[p] EXCEPT !.batch = <<>>])
    /\ Goto(p, "promote_scan")
    /\ UNCHANGED <<backend, sched, twin, deployVars, now, store, inprog, held, enqueues>>

\* _redis_fetch_and_lock_task: LLEN ready
ReadyLen(p) ==
    /\ pc[p] = "llen"
    /\ IF Len(ready) = 0
       THEN ReturnNone(p)
       ELSE /\ SetLoc(p, [loc[p] EXCEPT !.left = Len(ready)])
            /\ Goto(p, "lpop")
            /\ UNCHANGED held
    /\ UNCHANGED <<backend, sched, twin, deployVars, now, store, redisVars, enqueues>>

\* Where `continue` leads: the next LPOP, or past the end of range(queue_length).
AfterContinue(p) ==
    IF loc[p].left = 0
    THEN ReturnNone(p)
    ELSE /\ Goto(p, "lpop")
         /\ SetLoc(p, [loc[p] EXCEPT !.id = <<>>, !.data = <<>>])
         /\ UNCHANGED held

\* A loop that reads the head of the ready list and leaves it there.
ReadyPeek(p) ==
    /\ pc[p] = "lpop"
    /\ IF ready = <<>>
       THEN ReturnNone(p)
       ELSE /\ SetLoc(p, [loc[p] EXCEPT !.id = Head(ready), !.left = @ - 1])
            /\ Goto(p, "get")
            /\ UNCHANGED held
    /\ UNCHANGED <<backend, sched, twin, deployVars, now, store, redisVars, enqueues>>

\* _redis_fetch_and_lock_task: LPOP ready
ReadyPop(p) ==
    /\ pc[p] = "lpop"
    /\ IF ready = <<>>
       THEN ReturnNone(p) /\ UNCHANGED ready
       ELSE /\ ready' = Tail(ready)
            /\ SetLoc(p, [loc[p] EXCEPT !.id = Head(ready), !.left = @ - 1])
            /\ Goto(p, "get")
            /\ UNCHANGED held
    /\ UNCHANGED <<backend, sched, twin, deployVars, now, store, delayed, inprog, enqueues>>

\* A task_types argument that excludes nothing.
ExcludedNever(types, rec) == FALSE

\* Whether the task_types argument excludes a record.
Excluded(types, rec) == types # NoFilter /\ rec.task_type \notin types

\* _redis_fetch_and_lock_task: GET task:<id>
FetchGet(p) ==
    /\ pc[p] = "get"
    /\ LET id == loc[p].id
       IN IF id \notin DOMAIN store
          THEN AfterContinue(p)
          ELSE /\ IF Excluded(TaskTypesOf(p), store[id])
                  THEN /\ SetLoc(p, [loc[p] EXCEPT !.data =
                              [store[id] EXCEPT !.status = STATUS_PENDING,
                                                !.locked_at = NoTime]])
                       /\ Goto(p, "skip_set")
                  ELSE /\ SetLoc(p, [loc[p] EXCEPT !.data =
                              [store[id] EXCEPT !.status = STATUS_IN_PROGRESS,
                                                !.locked_at = loc[p].now]])
                       /\ Goto(p, "lock")
               /\ UNCHANGED held
    /\ UNCHANGED <<backend, sched, twin, deployVars, now, store, redisVars, enqueues>>

\* _redis_fetch_and_lock_task, filtered-out task: SET task:<id>
SkipSet(p) ==
    /\ pc[p] = "skip_set"
    /\ store' = Put(store, loc[p].id, loc[p].data)
    /\ Goto(p, "skip_resched")
    /\ Touch(loc[p].id)
    /\ UNCHANGED <<backend, sched, twin, now, redisVars, held, loc, enqueues>>

\* _redis_fetch_and_lock_task, filtered-out task: _redis_reschedule_task
SkipResched(p) ==
    /\ pc[p] = "skip_resched"
    /\ ready' = RescheduleReady(ready, loc[p].id, loc[p].data.available_at, loc[p].now)
    /\ delayed' = RescheduleDelayed(delayed, loc[p].id, loc[p].data.available_at, loc[p].now)
    /\ AfterContinue(p)
    /\ UNCHANGED <<backend, sched, twin, deployVars, now, store, inprog, enqueues>>

\* _redis_fetch_and_lock_task: SET task:<id> and ZADD in_progress in one pipeline,
\* then return the Task.
FetchLock(p) ==
    /\ pc[p] = "lock"
    /\ store' = Put(store, loc[p].id, loc[p].data)
    /\ inprog' = Put(inprog, loc[p].id, loc[p].now)
    /\ held' = [held EXCEPT ![p] =
                  TaskOf(loc[p].id, loc[p].data, loc[p].data.locked_at, loc[p].now, loc[p].lease)]
    /\ SetLoc(p, NoLocals)
    /\ Goto(p, "handler")
    /\ Touch(loc[p].id)
    /\ UNCHANGED <<backend, sched, twin, now, ready, delayed, enqueues>>

\* _redis_complete_task: DEL, LREM, ZREM, ZREM in one pipeline
RedisCompleteTask(p) ==
    /\ backend = "redis"
    /\ pc[p] = "handler"
    /\ MayStart(p)
    /\ store' = Del(store, held[p].task_id)
    /\ ready' = LRem(ready, held[p].task_id)
    /\ delayed' = Del(delayed, held[p].task_id)
    /\ inprog' = Del(inprog, held[p].task_id)
    /\ held' = [held EXCEPT ![p] = NoTask]
    /\ Goto(p, "idle")
    /\ Touch(held[p].task_id)
    /\ UNCHANGED <<backend, sched, twin, now, loc, enqueues>>

\* fail_task returns: the worker goes back to polling.
ReturnFromFail(p) ==
    /\ Goto(p, "idle")
    /\ SetLoc(p, NoLocals)
    /\ held' = [held EXCEPT ![p] = NoTask]

\* _redis_fail_task: GET task:<id>, then the new attempts, last_error, locked_at
RedisFailGet(p, error, retry_delay, max_attempts) ==
    /\ backend = "redis"
    /\ pc[p] = "handler"
    /\ MayStart(p)
    /\ LET id == held[p].task_id
       IN IF id \notin DOMAIN store
          THEN ReturnFromFail(p)
          ELSE /\ SetLoc(p, [NoLocals EXCEPT
                     !.now = now, !.id = id,
                     !.data = [store[id] EXCEPT !.attempts = @ + 1,
                                                !.last_error = Truncate(error),
                                                !.locked_at = NoTime],
                     !.args = [attempts |-> store[id].attempts + 1, error |-> error,
                               retry_delay |-> retry_delay,
                               max_attempts |-> max_attempts]])
               /\ Goto(p, "fail_zrem")
               /\ UNCHANGED held
    /\ UNCHANGED <<backend, sched, twin, deployVars, now, store, redisVars, enqueues>>

\* _redis_fail_task: ZREM in_progress, then the status and available_at
RedisFailZrem(p) ==
    /\ pc[p] = "fail_zrem"
    /\ inprog' = Del(inprog, loc[p].id)
    /\ LET a == loc[p].args
           status == FailStatus(a.attempts, a.max_attempts)
       IN SetLoc(p, [loc[p] EXCEPT !.data =
              IF status = STATUS_FAILED
              THEN [@ EXCEPT !.status = STATUS_FAILED]
              ELSE [@ EXCEPT !.status = STATUS_PENDING,
                             !.available_at = loc[p].now + a.retry_delay]])
    /\ Goto(p, "fail_set")
    /\ UNCHANGED <<backend, sched, twin, deployVars, now, store, ready, delayed, held, enqueues>>

\* _redis_fail_task: SET task:<id>; a terminal task returns here
RedisFailSet(p) ==
    /\ pc[p] = "fail_set"
    /\ store' = Put(store, loc[p].id, loc[p].data)
    /\ IF loc[p].data.status = STATUS_FAILED
       THEN ReturnFromFail(p)
       ELSE Goto(p, "fail_resched") /\ UNCHANGED <<held, loc>>
    /\ Touch(loc[p].id)
    /\ UNCHANGED <<backend, sched, twin, now, redisVars, enqueues>>

\* _redis_fail_task: _redis_reschedule_task
RedisFailResched(p) ==
    /\ pc[p] = "fail_resched"
    /\ ready' = RescheduleReady(ready, loc[p].id, loc[p].data.available_at, loc[p].now)
    /\ delayed' = RescheduleDelayed(delayed, loc[p].id, loc[p].data.available_at, loc[p].now)
    /\ ReturnFromFail(p)
    /\ UNCHANGED <<backend, sched, twin, deployVars, now, store, inprog, enqueues>>

\* ------------------------------------------------------------------- clock
\* The clock unit is far longer than one queue call: the clock advances between
\* calls, not in the middle of one.
TickUntil(horizon) ==
    /\ now < horizon
    /\ BetweenCalls
    /\ now' = now + 1
    /\ UNCHANGED <<backend, sched, twin, deployVars, store, redisVars, pc, held, loc, enqueues>>

Tick == TickUntil(MaxTime)

\* --------------------------------------------------------------------- Next
\* enqueue_task called by a producer.
Enqueue == \E t \in TaskTypes, pl \in Payloads, off \in AvailableOffsets : EnqueueTask(t, pl, off)

\* One step of worker p: a whole SQLite call or statement, or one Redis command.
WorkerStep(p) ==
    \/ \E lt \in LockTimeouts : SqliteFetchAndLockTask(p, lt)
    \/ SqliteCompleteTask(p)
    \/ \E e \in Errors, d \in RetryDelays, m \in AttemptCeilings : SqliteFailRead(p, e, d, m)
    \/ SqliteFailUpdate(p)
    \/ \E lt \in LockTimeouts : RedisFetchStart(p, lt)
    \/ RequeueScan(p)
    \/ RequeueGet(p)
    \/ RequeueSet(p)
    \/ RequeueResched(p)
    \/ RequeueZrem(p)
    \/ PromoteScan(p)
    \/ PromoteMove(p)
    \/ ReadyLen(p)
    \/ ReadyPop(p)
    \/ FetchGet(p)
    \/ SkipSet(p)
    \/ SkipResched(p)
    \/ FetchLock(p)
    \/ RedisCompleteTask(p)
    \/ \E e \in Errors, d \in RetryDelays, m \in AttemptCeilings : RedisFailGet(p, e, d, m)
    \/ RedisFailZrem(p)
    \/ RedisFailSet(p)
    \/ RedisFailResched(p)
    \/ Wake(p)

Next ==
    \/ Enqueue
    \/ \E p \in Procs : WorkerStep(p)
    \/ Tick

\* Calls issued one at a time.
Spec == Init /\ [][Next]_vars

\* Every interleaving of the steps of concurrent calls.
SpecConcurrent == InitConcurrent /\ [][Next]_vars

\* Calls issued one at a time by workers that keep running their loop: every
\* worker that can take a step again and again takes one, and time goes on.
\* Producers may stop enqueueing at any point.
SpecFair ==
    /\ Init
    /\ [][Next]_vars
    /\ \A p \in Procs : SF_vars(WorkerStep(p))
    /\ SF_vars(Tick)

\* ------------------------------------------------------- preloaded queues
\* A queue preloaded at time 0 with one semantic_index and one entity_extract
\* task, both immediately available; the semantic_index task is fresh or has
\* been failed once with retry_delay_seconds = 0.
TaskX == ComputeTaskId("semantic_index", PayloadAB)
TaskY == ComputeTaskId("entity_extract", PayloadAB)

FreshRecord(task_type) ==
    [task_type |-> task_type, status |-> STATUS_PENDING,
     payload |-> JsonDumps(PayloadAB), attempts |-> 0, available_at |-> 0,
     locked_at |-> NoTime, last_error |-> NoError]

PreloadedStores ==
    {[id \in {TaskX, TaskY} |->
        IF id = TaskX THEN [FreshRecord("semantic_index") EXCEPT
                               !.attempts = k,
                               !.last_error = IF k = 0 THEN NoError ELSE Truncate(e)]
        ELSE FreshRecord("entity_extract")] : k \in {0, 1}, e \in Errors}

Preloaded ==
    /\ backend \in Backends
    /\ now = 0
    /\ store \in PreloadedStores
    /\ ready \in (IF backend = "redis" THEN {<<TaskX, TaskY>>, <<TaskY, TaskX>>} ELSE {<<>>})
    /\ delayed = EmptyMap
    /\ inprog = EmptyMap
    /\ pc = [p \in Procs |-> "idle"]
    /\ held = [p \in Procs |-> NoTask]
    /\ loc = [p \in Procs |-> NoLocals]
    /\ enqueues = 2
    /\ twin = EmptyTwin
    /\ Undeployed

\* lock_timeout_seconds so long that no lease expires while the clock runs.
NoExpiry == MaxTime + 1

\* N workers claiming concurrently from a preloaded queue; no lease expires, no
\* task is failed or enqueued.
InitPreloaded == Preloaded /\ sched = "concurrent"

NextPreloaded ==
    \/ \E p \in Procs : SqliteFetchAndLockTask(p, NoExpiry)
    \/ \E p \in Procs : SqliteCompleteTask(p)
    \/ \E p \in Procs : RedisFetchStart(p, NoExpiry)
    \/ \E p \in Procs : RequeueScan(p)
    \/ \E p \in Procs : PromoteScan(p)
    \/ \E p \in Procs : ReadyLen(p)
    \/ \E p \in Procs : ReadyPop(p)
    \/ \E p \in Procs : FetchGet(p)
    \/ \E p \in Procs : SkipSet(p)
    \/ \E p \in Procs : SkipResched(p)
    \/ \E p \in Procs : FetchLock(p)
    \/ \E p \in Procs : RedisCompleteTask(p)
    \/ \E p \in Procs : Wake(p)
    \/ Tick

SpecPreloaded == InitPreloaded /\ [][NextPreloaded]_vars

\* Workers claiming and completing concurrently while leases expire, over a
\* time long enough for a redelivered task's lease to expire in its turn; no
\* task is failed or enqueued.
RecoveryHorizon == MaxTime + 1

NextRecovery ==
    \/ \E p \in Procs, lt \in LockTimeouts : SqliteFetchAndLockTask(p, lt)
    \/ \E p \in Procs : SqliteCompleteTask(p)
    \/ \E p \in Procs, lt \in LockTimeouts : RedisFetchStart(p, lt)
    \/ \E p \in Procs : RequeueScan(p)
    \/ \E p \in Procs : RequeueGet(p)
    \/ \E p \in Procs : RequeueSet(p)
    \/ \E p \in Procs : RequeueResched(p)
    \/ \E p \in Procs : RequeueZrem(p)
    \/ \E p \in Procs : PromoteScan(p)
    \/ \E p \in Procs : ReadyLen(p)
    \/ \E p \in Procs : ReadyPop(p)
    \/ \E p \in Procs : FetchGet(p)
    \/ \E p \in Procs : SkipSet(p)
    \/ \E p \in Procs : SkipResched(p)
    \/ \E p \in Procs : FetchLock(p)
    \/ \E p \in Procs : RedisCompleteTask(p)
    \/ \E p \in Procs : Wake(p)
    \/ TickUntil(RecoveryHorizon)

SpecRecovery == InitPreloaded /\ [][NextRecovery]_vars

\* Calls issued one at a time on a preloaded queue: claim, complete and fail,
\* with no lease expiring and no enqueue.
InitRetry == Preloaded /\ sched = "serial"

\* error arguments of the fail_task calls: one longer than the limit of
\* last_error, one shorter.
RetryErrors == Errors \cup {[text |-> "oops", len |-> 4]}

NextRetry ==
    \/ \E p \in Procs : SqliteFetchAndLockTask(p, NoExpiry)
    \/ \E p \in Procs : SqliteCompleteTask(p)
    \/ \E p \in Procs, e \in RetryErrors, d \in RetryDelays, m \in AttemptCeilings :
          SqliteFailRead(p, e, d, m)
    \/ \E p \in Procs : SqliteFailUpdate(p)
    \/ \E p \in Procs : RedisFetchStart(p, NoExpiry)
    \/ \E p \in Procs : RequeueScan(p)
    \/ \E p \in Procs : PromoteScan(p)
    \/ \E p \in Procs : PromoteMove(p)
    \/ \E p \in Procs : ReadyLen(p)
    \/ \E p \in Procs : ReadyPop(p)
    \/ \E p \in Procs : FetchGet(p)
    \/ \E p \in Procs : SkipSet(p)
    \/ \E p \in Procs : SkipResched(p)
    \/ \E p \in Procs : FetchLock(p)
    \/ \E p \in Procs : RedisCompleteTask(p)
    \/ \E p \in Procs, e \in RetryErrors, d \in RetryDelays, m \in AttemptCeilings :
          RedisFailGet(p, e, d, m)
    \/ \E p \in Procs : RedisFailZrem(p)
    \/ \E p \in Procs : RedisFailSet(p)
    \/ \E p \in Procs : RedisFailResched(p)
    \/ \E p \in Procs : Wake(p)
    \/ Tick

SpecRetry == InitRetry /\ [][NextRetry]_vars

\* ---------------------------------------------------------- worker crash
\* The process of worker p stops during a fetch_and_lock_task call or while it
\* handles the task the call returned, and takes no further step; the commands
\* it has sent stay in effect, and loc[p].args keeps where it stopped.  At most
\* one worker stops.
Crash(p) ==
    /\ pc[p] \in {"requeue_scan", "requeue_get", "requeue_set", "requeue_resched",
                  "requeue_zrem", "promote_scan", "promote_move", "llen", "lpop",
                  "get", "skip_set", "skip_resched", "lock", "handler"}
    /\ \A q \in Procs : pc[q] # "crashed"
    /\ Goto(p, "crashed")
    /\ SetLoc(p, [loc[p] EXCEPT !.args = [at |-> pc[p]]])
    /\ UNCHANGED <<backend, sched, twin, deployVars, now, store, redisVars, held, enqueues>>

\* Workers claiming and completing, one call at a time, while leases expire and
\* one worker may stop; the workers that run are scheduled fairly and time
\* goes on.
NextCrash == NextRecovery \/ \E p \in Procs : Crash(p)

SpecCrash ==
    /\ InitRetry
    /\ [][NextCrash]_vars
    /\ \A p \in Procs : SF_vars(WorkerStep(p))
    /\ SF_vars(TickUntil(RecoveryHorizon))

\* ----------------------------------------------------------- fresh tasks
\* Calls issued one at a time with one worker, the one that passes no
\* task_types, running its loop; the other worker never starts, and every
\* enqueue_task call leaves available_at to its default, the time of the call.
SpecFresh ==
    Init /\ [][/\ Next
               /\ pc'["w2"] = "idle"
               /\ enqueues' # enqueues =>
                     \A id \in DOMAIN store' :
                        (id \notin DOMAIN store \/ store'[id] # store[id]) =>
                           store'[id].available_at = now]_vars

\* ------------------------------------------------------ watched enqueue
\* Workers claiming and completing concurrently on a preloaded queue while a
\* producer runs _redis_enqueue_task command by command; workers and producer
\* are scheduled fairly and time goes on.
NextWatch ==
    \/ NextRecovery
    \/ \E t \in TaskTypes, pl \in Payloads : EnqueueWatch(t, pl)
    \/ EnqueueExec

SpecWatch ==
    /\ InitPreloaded
    /\ [][NextWatch]_vars
    /\ \A p \in Procs : SF_vars(WorkerStep(p))
    /\ SF_vars(TickUntil(RecoveryHorizon))
    /\ SF_vars(EnqueueExec)

\* ------------------------------------------------------- delayed backlog
\* A Redis queue whose delayed set holds a backlog of semantic_index tasks, all
\* of them due, of a size around one promotion batch; every worker calls
\* fetch_and_lock_task once, one call at a time.
BacklogSlack == 2

InitBacklog ==
    \E n \in (PROMOTION_BATCH_SIZE - BacklogSlack)..(PROMOTION_BATCH_SIZE + BacklogSlack) :
       LET IdOf(i) == ComputeTaskId("semantic_index", <<<<"content_id", i>>>>)
           ids == {IdOf(i) : i \in 1..n}
           AtOf(id) == id[2][1][2]
       IN /\ backend = "redis"
          /\ sched = "serial"
          /\ now = PROMOTION_BATCH_SIZE + BacklogSlack + 1
          /\ store = [id \in ids |-> [FreshRecord("semantic_index") EXCEPT
                                        !.payload = id[2], !.available_at = AtOf(id)]]
          /\ delayed = [id \in ids |-> AtOf(id)]
          /\ ready = <<>>
          /\ inprog = EmptyMap
          /\ pc = [p \in Procs |-> "idle"]
          /\ held = [p \in Procs |-> NoTask]
          /\ loc = [p \in Procs |-> NoLocals]
          /\ enqueues = 0
          /\ twin = EmptyTwin
          /\ Undeployed

NextBacklog ==
    \/ \E p \in Procs, lt \in LockTimeouts : RedisFetchStart(p, lt)
    \/ \E p \in Procs : RequeueScan(p)
    \/ \E p \in Procs : PromoteScan(p)
    \/ \E p \in Procs : PromoteMove(p)
    \/ \E p \in Procs : ReadyLen(p)
    \/ \E p \in Procs : ReadyPop(p)
    \/ \E p \in Procs : FetchGet(p)
    \/ \E p \in Procs : FetchLock(p)

SpecBacklog == InitBacklog /\ [][NextBacklog]_vars

\* ------------------------------------------------------- paired backends
\* One sequence of calls, issued one at a time, given to a Redis queue (the
\* queue variables) and to a SQLite queue (twin) at the same clock readings.
\* enqueue, complete and fail are applied to the twin first and then run on
\* Redis; a poll runs on Redis first and then on the twin, which resolves a tie
\* of its ORDER BY in favour of the task Redis returned.
queueVars ==
    <<backend, sched, now, store, ready, delayed, inprog, pc, held, loc, enqueues, deployVars>>

InSync ==
    /\ twin.todo = NoCall
    /\ \A p \in Procs : twin.pc[p] = pc[p]

TwinEnqueue(task_type, payload, offset) ==
    /\ InSync
    /\ enqueues < MaxEnqueues
    /\ LET task_id == ComputeTaskId(task_type, payload)
           available == IF offset = NoTime THEN now ELSE now + offset
       IN twin' = [twin EXCEPT
              !.store = SqliteUpsertIn(@, task_id, task_type, payload, available),
              !.todo = [op |-> "enqueue", n |-> enqueues, task_type |-> task_type,
                        payload |-> payload, offset |-> offset]]
    /\ UNCHANGED queueVars

PairedEnqueue ==
    /\ twin.todo.op = "enqueue"
    /\ twin.todo.n = enqueues
    /\ EnqueueTask(twin.todo.task_type, twin.todo.payload, twin.todo.offset)

PairedFetch(p) == InSync /\ \E lt \in LockTimeouts : RedisFetchStart(p, lt)

\* The poll of worker p on the twin, once Redis has answered it.
TwinFetch(p) ==
    /\ twin.todo = NoCall
    /\ twin.pc[p] = "idle"
    /\ pc[p] \in {"handler", "sleep"}
    /\ \E lt \in LockTimeouts :
         LET cands == SqliteCandidatesIn(twin.store, TaskTypesOf(p), now, lt)
             first == SqliteFirstIn(twin.store, cands)
             pick  == IF pc[p] = "handler" /\ held[p].task_id \in first
                      THEN {held[p].task_id} ELSE first
         IN IF cands = {}
            THEN twin' = [twin EXCEPT !.pc[p] = "sleep"]
            ELSE \E id \in pick :
                   twin' = [twin EXCEPT
                       !.store = Put(@, id, SqliteLockRow(twin.store[id], now)),
                       !.held[p] = TaskOf(id, twin.store[id], twin.store[id].locked_at,
                                          now, lt),
                       !.pc[p] = "handler"]
    /\ UNCHANGED queueVars

TwinWake(p) ==
    /\ twin.pc[p] = "sleep"
    /\ pc[p] = "idle"
    /\ twin' = [twin EXCEPT !.pc[p] = "idle"]
    /\ UNCHANGED queueVars

TwinComplete(p) ==
    /\ InSync
    /\ pc[p] = "handler"
    /\ twin' = [twin EXCEPT !.store = Del(@, twin.held[p].task_id),
                            !.held[p] = NoTask, !.pc[p] = "idle",
                            !.todo = [op |-> "complete", p |-> p]]
    /\ UNCHANGED queueVars

PairedComplete(p) ==
    /\ twin.todo = [op |-> "complete", p |-> p]
    /\ RedisCompleteTask(p)

TwinFail(p, error, retry_delay, max_attempts) ==
    /\ InSync
    /\ pc[p] = "handler"
    /\ LET id == twin.held[p].task_id
           attempts == (IF id \in DOMAIN twin.store THEN twin.store[id].attempts ELSE 0) + 1
           a == [attempts |-> attempts, error |-> error, retry_delay |-> retry_delay,
                 max_attempts |-> max_attempts]
       IN twin' = [twin EXCEPT
              !.store = IF id \in DOMAIN @ THEN Put(@, id, SqliteFailRow(@[id], a, now))
                        ELSE @,
              !.held[p] = NoTask, !.pc[p] = "idle",
              !.todo = [op |-> "fail", p |-> p, error |-> error,
                        retry_delay |-> retry_delay, max_attempts |-> max_attempts]]
    /\ UNCHANGED queueVars

PairedFail(p) ==
    /\ twin.todo.op = "fail"
    /\ twin.todo.p = p
    /\ RedisFailGet(p, twin.todo.error, twin.todo.retry_delay, twin.todo.max_attempts)

\* The call handed to Redis has returned there.
TwinAck ==
    /\ \/ twin.todo.op = "enqueue" /\ enqueues = twin.todo.n + 1
       \/ twin.todo.op \in {"complete", "fail"} /\ pc[twin.todo.p] = "idle"
    /\ twin' = [twin EXCEPT !.todo = NoCall]
    /\ UNCHANGED queueVars

InitPair == InitEmpty /\ backend = "redis" /\ sched = "serial"

NextPair ==
    \/ \E t \in TaskTypes, pl \in Payloads, off \in AvailableOffsets : TwinEnqueue(t, pl, off)
    \/ PairedEnqueue
    \/ \E p \in Procs : PairedFetch(p)
    \/ \E p \in Procs : TwinFetch(p)
    \/ \E p \in Procs : InSync /\ Wake(p)
    \/ \E p \in Procs : TwinWake(p)
    \/ \E p \in Procs : TwinComplete(p)
    \/ \E p \in Procs : PairedComplete(p)
    \/ \E p \in Procs, e \in Errors, d \in RetryDelays, m \in AttemptCeilings :
           TwinFail(p, e, d, m)
    \/ \E p \in Procs : PairedFail(p)
    \/ TwinAck
    \/ \E p \in Procs : RequeueScan(p)
    \/ \E p \in Procs : RequeueGet(p)
    \/ \E p \in Procs : RequeueSet(p)
    \/ \E p \in Procs : RequeueResched(p)
    \/ \E p \in Procs : RequeueZrem(p)
    \/ \E p \in Procs : PromoteScan(p)
    \/ \E p \in Procs : PromoteMove(p)
    \/ \E p \in Procs : ReadyLen(p)
    \/ \E p \in Procs : ReadyPop(p)
    \/ \E p \in Procs : FetchGet(p)
    \/ \E p \in Procs : SkipSet(p)
    \/ \E p \in Procs : SkipResched(p)
    \/ \E p \in Procs : FetchLock(p)
    \/ \E p \in Procs : RedisFailZrem(p)
    \/ \E p \in Procs : RedisFailSet(p)
    \/ \E p \in Procs : RedisFailResched(p)
    \/ InSync /\ Tick

SpecPair == InitPair /\ [][NextPair]_vars

\* ---------------------------------------------------------- queue targets
\* str.lower, on the letters that occur in the scheme of a target.
LowerChar(c) ==
    CASE c = "R" -> "r" [] c = "E" -> "e" [] c = "D" -> "d" [] c = "I" -> "i"
      [] c = "S" -> "s" [] c = "U" -> "u" [] c = "N" -> "n" [] c = "X" -> "x"
      [] OTHER -> c

RECURSIVE Lower(_)
Lower(s) ==
    IF Len(s) = 0 THEN "" ELSE LowerChar(SubSeq(s, 1, 1)) \o Lower(SubSeq(s, 2, Len(s)))

\* str.startswith
StartsWith(s, prefix) == Len(s) >= Len(prefix) /\ SubSeq(s, 1, Len(prefix)) = prefix

RedisSchemes == {"redis://", "rediss://", "unix://"}

\* The prefix test applied to the target as given, without lower-casing.
IsRedisTargetExact(target) == \E prefix \in RedisSchemes : StartsWith(target, prefix)

\* _is_redis_target
IsRedisTarget(target) ==
    LET lowered == Lower(target)
    IN \E prefix \in RedisSchemes : StartsWith(lowered, prefix)

\* The branch a dispatcher takes for a target.
BackendFor(target) == IF IsRedisTarget(target) THEN "redis" ELSE "sqlite"

\* Target strings given to the dispatchers: a scheme-like word, a separator and
\* the rest of the string.
Targets ==
    {word \o sep \o rest :
        word \in {"redis", "rediss", "unix", "REDIS", "Rediss", "UNIX", "Unix", "rEdIs",
                  "redi", "xredis", " redis", "http", "data", ""},
        sep \in {"://", ":/", "/"},
        rest \in {"localhost:6379/0", ""}}

\* Each dispatcher evaluates _is_redis_target on its own queue_target argument.
Dispatch(op) ==
    /\ call.target # NoValue
    /\ call.op # op
    /\ call' = [call EXCEPT !.op = op, !.backend = BackendFor(call.target)]
    /\ UNCHANGED <<backend, sched, twin, now, store, redisVars, pc, held, loc, enqueues,
                   config, files>>

InitSelect ==
    /\ EmptyQueue
    /\ sched = "serial"
    /\ config = NoConfig
    /\ files = EmptyMap
    /\ call \in {[NoDispatch EXCEPT !.target = t] : t \in Targets}

NextSelect ==
    \/ Dispatch("enqueue_task")
    \/ Dispatch("fetch_and_lock_task")
    \/ Dispatch("complete_task")
    \/ Dispatch("fail_task")

\* The four dispatchers applied, in any order, to one target string.
SpecSelect == InitSelect /\ [][NextSelect]_vars

\* ------------------------------------------------------------ the pipeline
\* Python's `a or b` on optional strings.
Or(a, b) == IF a \in {NoValue, ""} THEN b ELSE a

\* str(Path(path)): a leading "./" is dropped.
PathStr(path) == IF StartsWith(path, "./") THEN SubSeq(path, 3, Len(path)) ELSE path

\* load_settings, with JARVIS_DATABASE and the config file's database path unset.
LoadSettings(database, env_url, file_url) ==
    [database_path |-> PathStr(Or(database, "data/messages.db")),
     task_queue_url |-> Or(env_url, file_url)]

\* The database files that the targets of a deployment can name.
DatabaseFiles == {"data/messages.db", "data/jarvis.db", "data/queue.db"}

\* The queue target of the mail-ingestion producer (SQLiteDataStore.__init__).
QueueTarget(cfg) == Or(cfg.task_queue_url, cfg.database_path)

\* The queue target of the processing worker and of its handlers.
WorkerTarget(cfg) == cfg.database_path

\* sqlite3.connect(database_path): the task_queue table of that file.
SqliteConnect(database_path) == files[database_path]

\* A commit that lands in every database file.
SqliteCommitShared(database_path, table) == [f \in DOMAIN files |-> table]

\* The commit that ends `with sqlite3.connect(database_path)`.
SqliteCommit(database_path, table) == [files EXCEPT ![database_path] = table]

MailContentIds == {"cid-1"}
ContentPayload(content_id) == <<<<"content_id", content_id>>>>

\* enqueue_task(target, task_type, payload)
EnqueueAt(target, task_type, payload) ==
    /\ enqueues < MaxEnqueues
    /\ BetweenCalls
    /\ enqueues' = enqueues + 1
    /\ IF IsRedisTarget(target)
       THEN /\ RedisEnqueueTask(task_type, payload, NoTime)
            /\ UNCHANGED files
       ELSE /\ files' = SqliteCommit(target,
                           SqliteUpsertIn(SqliteConnect(target),
                                          ComputeTaskId(task_type, payload),
                                          task_type, payload, now))
            /\ UNCHANGED <<store, redisVars>>
    /\ UNCHANGED <<backend, sched, twin, now, pc, held, loc, config, call>>

\* fetch_gmail_messages main: SQLiteDataStore.save_messages queues one
\* semantic_index task per stored content.
FetchGmailMain ==
    \E cid \in MailContentIds :
        EnqueueAt(QueueTarget(config), "semantic_index", ContentPayload(cid))

\* enqueue_local_files: one semantic_index task per registered file.
EnqueueLocalFiles ==
    \E cid \in {"file:sha-1"} :
        EnqueueAt(config.database_path, "semantic_index", ContentPayload(cid))

\* enqueue_task called on the worker's database by a client that is not part of
\* the pipeline, with a task type for which the worker has no handler.
EnqueueOther ==
    \E cid \in MailContentIds :
        EnqueueAt(config.database_path, "thumbnail", ContentPayload(cid))

\* The task types the worker loop has a handler for.
SupportedTaskTypes ==
    {"semantic_index", "entity_extract", "lab_results", "financial_records", "medical_events"}

\* The poll of the processing worker: fetch_and_lock_task(db_path, task_types).
\* db_path is a file path, so the dispatcher takes its SQLite branch.
PipelineFetch(p) ==
    /\ pc[p] = "idle"
    /\ MayStart(p)
    /\ ~IsRedisTarget(WorkerTarget(config))
    /\ \E lt \in LockTimeouts :
         LET target == WorkerTarget(config)
             table == SqliteConnect(target)
             cands == SqliteCandidatesIn(table, TaskTypesOf(p), now, lt)
         IN IF cands = {}
            THEN /\ pc' = [pc EXCEPT ![p] = "sleep"]
                 /\ UNCHANGED <<files, held>>
            ELSE \E id \in SqliteFirstIn(table, cands) :
                   /\ files' = SqliteCommit(target, Put(table, id, SqliteLockRow(table[id], now)))
                   /\ held' = [held EXCEPT ![p] =
                                 TaskOf(id, table[id], table[id].locked_at, now, lt)]
                   /\ pc' = [pc EXCEPT ![p] = "handler"]
    /\ UNCHANGED <<backend, sched, twin, now, store, redisVars, loc, enqueues, config, call>>

\* A worker loop that calls complete_task whatever the task type.
PipelineCompleteAny(p) ==
    /\ pc[p] = "handler"
    /\ MayStart(p)
    /\ ~IsRedisTarget(WorkerTarget(config))
    /\ LET target == WorkerTarget(config)
       IN files' = SqliteCommit(target, Del(SqliteConnect(target), held[p].task_id))
    /\ held' = [held EXCEPT ![p] = NoTask]
    /\ pc' = [pc EXCEPT ![p] = "idle"]
    /\ UNCHANGED <<backend, sched, twin, now, store, redisVars, loc, enqueues, config, call>>

\* The handler returned, which only the handler of a supported task type does:
\* complete_task(db_path, task.task_id).
PipelineComplete(p) ==
    /\ pc[p] = "handler"
    /\ held[p].task_type \in SupportedTaskTypes
    /\ MayStart(p)
    /\ ~IsRedisTarget(WorkerTarget(config))
    /\ LET target == WorkerTarget(config)
       IN files' = SqliteCommit(target, Del(SqliteConnect(target), held[p].task_id))
    /\ held' = [held EXCEPT ![p] = NoTask]
    /\ pc' = [pc EXCEPT ![p] = "idle"]
    /\ UNCHANGED <<backend, sched, twin, now, store, redisVars, loc, enqueues, config, call>>

\* max_attempts of fail_task when the caller gives none.
DefaultMaxAttempts == 5

\* The handler raised, or the task type has no handler:
\* fail_task(db_path, task.task_id, error=repr(exc)), with the default
\* max_attempts and the default retry_delay_seconds, which is as long as the
\* default lock_timeout_seconds.
PipelineFail(p) ==
    /\ pc[p] = "handler"
    /\ MayStart(p)
    /\ ~IsRedisTarget(WorkerTarget(config))
    /\ \E e \in Errors, d \in LockTimeouts :
         LET target == WorkerTarget(config)
             m == DefaultMaxAttempts
             table == SqliteConnect(target)
             id == held[p].task_id
             a == [attempts |-> (IF id \in DOMAIN table THEN table[id].attempts ELSE 0) + 1,
                   error |-> e, retry_delay |-> d, max_attempts |-> m]
         IN files' = IF id \in DOMAIN table
                     THEN SqliteCommit(target, Put(table, id, SqliteFailRow(table[id], a, now)))
                     ELSE files
    /\ held' = [held EXCEPT ![p] = NoTask]
    /\ pc' = [pc EXCEPT ![p] = "idle"]
    /\ UNCHANGED <<backend, sched, twin, now, store, redisVars, loc, enqueues, config, call>>

\* One deployment: the producers and the workers run under one configuration,
\* drawn from the --database argument, JARVIS_TASK_QUEUE and the config file's
\* task_queue_url; the queue variables hold the Redis server a queue URL names.
InitPipeline ==
    /\ EmptyQueue
    /\ backend = "redis"
    /\ sched = "serial"
    /\ config \in {LoadSettings(database, env_url, file_url) :
                       database \in {NoValue, "./data/jarvis.db"},
                       env_url \in {NoValue, "", "redis://localhost:6379/0"},
                       file_url \in {NoValue, "data/queue.db"}}
    /\ files = [f \in DatabaseFiles |-> EmptyMap]
    /\ call = NoDispatch

NextPipeline ==
    \/ FetchGmailMain
    \/ EnqueueLocalFiles
    \/ EnqueueOther
    \/ \E p \in Procs : PipelineFetch(p)
    \/ \E p \in Procs : PipelineComplete(p)
    \/ \E p \in Procs : PipelineFail(p)
    \/ \E p \in Procs : Wake(p)
    \/ Tick

SpecPipeline == InitPipeline /\ [][NextPipeline]_vars

\* ------------------------------------------------------------ the handlers
\* payload.get(key)
PayloadGet(payload, key) ==
    IF \E i \in 1..Len(payload) : payload[i][1] = key
    THEN payload[CHOOSE i \in 1..Len(payload) : payload[i][1] = key][2]
    ELSE NoValue

\* Follow-up calls made whatever the indexer or builder reports.
FollowUpsAlways(task_type, content_id, processed) ==
    IF task_type = "semantic_index"
    THEN << <<"entity_extract", ContentPayload(content_id)>> >>
    ELSE <<>>

\* The follow-up calls of the entity stage, medical_events first.
FollowUpsReordered(task_type, content_id, processed) ==
    IF task_type = "entity_extract" /\ processed # 0
    THEN << <<"medical_events", << <<"content_id", content_id>>, <<"extractor", "med">> >> >>,
            <<"financial_records", << <<"content_id", content_id>>, <<"extractor", "fin">> >> >>,
            <<"lab_results", << <<"content_id", content_id>>, <<"extractor", "lab">> >> >> >>
    ELSE <<>>

\* The enqueue_task calls, in order, that the handler of a task type makes once
\* its indexer or builder has returned `processed` (handle_semantic_task,
\* handle_entity_task; the fact handlers make none).
FollowUps(task_type, content_id, processed) ==
    IF processed = 0 THEN <<>>
    ELSE IF task_type = "semantic_index"
    THEN << <<"entity_extract", ContentPayload(content_id)>> >>
    ELSE IF task_type = "entity_extract"
    THEN << <<"lab_results", << <<"content_id", content_id>>, <<"extractor", "lab">> >> >>,
            <<"financial_records", << <<"content_id", content_id>>, <<"extractor", "fin">> >> >>,
            <<"medical_events", << <<"content_id", content_id>>, <<"extractor", "med">> >> >> >>
    ELSE <<>>

\* The handler of the task worker p was given runs up to its first
\* enqueue_task call: it raises for a task type without a handler, for a
\* semantic_index or entity_extract payload without content_id, and when its
\* indexer or builder raises (processed = -1); otherwise the indexer or builder
\* returns the number of segments it processed.
HandlerStart(p) ==
    /\ pc[p] = "handler"
    /\ \E processed \in -1..2 :
         LET content_id == PayloadGet(held[p].payload, "content_id")
             raises == \/ held[p].task_type \notin SupportedTaskTypes
                       \/ /\ held[p].task_type \in {"semantic_index", "entity_extract"}
                          /\ content_id \in {NoValue, ""}
                       \/ processed = -1
             calls == FollowUps(held[p].task_type, content_id, processed)
         IN /\ loc' = [loc EXCEPT ![p] =
                         [NoLocals EXCEPT !.batch = IF raises THEN <<>> ELSE calls,
                                          !.args = [content_id |-> content_id,
                                                    processed |-> processed]]]
            /\ pc' = [pc EXCEPT ![p] = IF raises THEN "raised"
                                       ELSE IF calls = <<>> THEN "returned"
                                       ELSE "enqueueing"]
    /\ UNCHANGED <<backend, sched, twin, now, store, redisVars, held, enqueues, deployVars>>

\* The next task_queue.enqueue_task(database, ...) call of the handler; after
\* the last one the handler returns.
HandlerEnqueue(p) ==
    /\ pc[p] = "enqueueing"
    /\ ~IsRedisTarget(WorkerTarget(config))
    /\ LET target == WorkerTarget(config)
           next == Head(loc[p].batch)
       IN files' = SqliteCommit(target,
                       SqliteUpsertIn(SqliteConnect(target),
                                      ComputeTaskId(next[1], next[2]),
                                      next[1], next[2], now))
    /\ loc' = [loc EXCEPT ![p].batch = Tail(@)]
    /\ pc' = [pc EXCEPT ![p] = IF Len(loc[p].batch) = 1 THEN "returned" ELSE "enqueueing"]
    /\ UNCHANGED <<backend, sched, twin, now, store, redisVars, held, enqueues, config, call>>

\* A worker has just been given a task of its database: any task type it
\* polls for, with a payload that has a content_id, an empty one or none.
InitHandlers ==
    /\ backend = "redis"
    /\ sched = "serial"
    /\ now = 0
    /\ store = EmptyMap
    /\ ready = <<>>
    /\ delayed = EmptyMap
    /\ inprog = EmptyMap
    /\ enqueues = 0
    /\ twin = EmptyTwin
    /\ config \in {LoadSettings(database, env_url, NoValue) :
                       database \in {NoValue, "./data/jarvis.db"},
                       env_url \in {NoValue, "redis://localhost:6379/0"}}
    /\ call = NoDispatch
    /\ \E p \in Procs,
          task_type \in SupportedTaskTypes \cup {"thumbnail"},
          payload \in {ContentPayload("cid-1"), ContentPayload(""), <<>>,
                       << <<"content_id", "cid-1">>, <<"extractor", "llm">> >>} :
         LET id == ComputeTaskId(task_type, payload)
             row == [FreshRecord(task_type) EXCEPT !.payload = JsonDumps(payload)]
         IN /\ TaskTypesOf(p) = NoFilter \/ task_type \in TaskTypesOf(p)
            /\ files = [f \in DatabaseFiles |->
                          IF f = WorkerTarget(config)
                          THEN Put(EmptyMap, id, SqliteLockRow(row, 0))
                          ELSE EmptyMap]
            /\ held = [q \in Procs |-> IF q = p THEN TaskOf(id, row, NoTime, 0, 1) ELSE NoTask]
            /\ pc = [q \in Procs |-> IF q = p THEN "handler" ELSE "idle"]
            /\ loc = [q \in Procs |-> NoLocals]

NextHandlers == \E p \in Procs : HandlerStart(p) \/ HandlerEnqueue(p)

\* The handler dispatch of the worker loop, run on one task.
SpecHandlers == InitHandlers /\ [][NextHandlers]_vars

\* ------------------------------------------------------------ step kinds
\* fetch_and_lock_task returns a Task to worker p in this step.
Returns(p) == pc[p] # "handler" /\ pc'[p] = "handler"

\* fetch_and_lock_task returns None to worker p in this step.
ReturnsNone(p) == pc[p] # "sleep" /\ pc'[p] = "sleep"

\* An enqueue_task call takes effect in this step.
Enqueues == enqueues' = enqueues + 1

\* fail_task writes the record in this step.
FailWrites(p) ==
    \/ pc[p] = "sqlite_fail_update" /\ pc'[p] # pc[p] /\ loc[p].id \in DOMAIN store
    \/ pc[p] = "fail_set" /\ pc'[p] # pc[p]

\* fail_task, having written the record, returns in this step.
FailReturns(p) ==
    /\ pc[p] \in {"sqlite_fail_update", "fail_set", "fail_resched"}
    /\ pc'[p] = "idle"
    /\ loc[p].id \in DOMAIN store'

\* Worker p holds a task whose lease, taken with p's lock_timeout_seconds, has
\* run out at time t, and the task has not been completed.
LeaseExpired(p, t) ==
    /\ pc[p] = "handler"
    /\ held[p].task_id \in DOMAIN store
    /\ held[p].at + held[p].lease <= t

\* Worker p holds a task it received less than lease_seconds ago.
LeaseActive(p) == pc[p] = "handler" /\ now - held[p].at < held[p].lease

\* ------------------------------------------------------------ properties
\* C1: with workers claiming concurrently and no lease expiring, a claim
\* returns a task only while its record exists and no other worker holds it,
\* so every task_id is returned by at most one claim before it is completed.
C1_AtMostOneClaim ==
    [][\A p \in Procs : Returns(p) =>
          /\ held'[p].task_id \in DOMAIN store
          /\ \A q \in Procs \ {p} : held[q].task_id # held'[p].task_id]_vars

\* Both workers hold a task at once, each a different one.
C1_Witness ==
    /\ \A p \in Procs : pc[p] = "handler"
    /\ held["w1"].task_id # held["w2"].task_id

\* C2: no two workers hold the same task while the lease of each is still
\* running.
C2_LeaseExclusive ==
    \A p, q \in Procs :
        (p # q /\ LeaseActive(p) /\ LeaseActive(q)) => held[p].task_id # held[q].task_id

\* C3: two records whose task_type and key-sorted payload agree are one record.
C3_OneRecordPerIdentity ==
    \A a, b \in DOMAIN store :
        (store[a].task_type = store[b].task_type /\ store[a].payload = store[b].payload)
            => a = b

\* A task was enqueued, claimed, and enqueued again for a later time while in
\* progress: the queue holds one record.
C3_Witness ==
    \E id \in DOMAIN store :
        /\ DOMAIN store = {id}
        /\ enqueues = 2
        /\ store[id].status = STATUS_IN_PROGRESS
        /\ store[id].available_at > now

\* C4: enqueueing leaves the status and the attempts of every pending or
\* in_progress record as they were, and the lock of every in_progress record.
C4_EnqueueKeepsInFlight ==
    [][Enqueues =>
          \A id \in DOMAIN store :
              store[id].status \in {STATUS_PENDING, STATUS_IN_PROGRESS} =>
                  /\ id \in DOMAIN store'
                  /\ store'[id].status = store[id].status
                  /\ store'[id].attempts = store[id].attempts
                  /\ store[id].status = STATUS_IN_PROGRESS =>
                         store'[id].locked_at = store[id].locked_at]_vars

\* C5: enqueueing the identity of a failed record revives it: the record comes
\* back pending with attempts 0 and no last_error.
C5_EnqueueRevivesFailed ==
    [][Enqueues =>
          \A id \in DOMAIN store :
              (store[id].status = STATUS_FAILED /\ store'[id] # store[id]) =>
                  /\ store'[id].status = STATUS_PENDING
                  /\ store'[id].attempts = 0
                  /\ store'[id].last_error = NoError]_vars

\* C6: while workers claim and complete concurrently and nothing is failed or
\* enqueued, a claim made once the lease of an uncompleted task has run out
\* does not come back empty when its filter accepts the task, and a redelivery
\* of the task carries the attempts of the first delivery.
C6_LeaseRecovery ==
    [][\A q \in Procs :
          /\ ReturnsNone(q) =>
                 ~ \E p \in Procs \ {q} :
                       LeaseExpired(p, now) /\ ~Excluded(TaskTypesOf(q), held[p])
          /\ Returns(q) =>
                 \A p \in Procs \ {q} :
                     (LeaseExpired(p, now) /\ held[p].task_id = held'[q].task_id) =>
                         held'[q].attempts = held[p].attempts]_vars

\* C7: a fail_task call leaves the record failed exactly when its attempts
\* equal max_attempts.
C7_FailedIffAtCeiling ==
    [][\A p \in Procs : FailWrites(p) =>
          LET rec == store'[loc[p].id] IN
          (rec.status = STATUS_FAILED) <=> (rec.attempts = loc[p].args.max_attempts)]_vars

\* C8: a claim never returns a task whose record is failed.
C8_FailedNeverDelivered ==
    [][\A p \in Procs : Returns(p) =>
          ~ (held'[p].task_id \in DOMAIN store
                /\ store[held'[p].task_id].status = STATUS_FAILED)]_vars

\* C9: a claim never returns, before its available_at, a task whose
\* available_at was set by its most recent enqueue (no fail_task has written
\* the record since).
C9_DelayedVisibility ==
    [][\A p \in Procs : (Returns(p) /\ held'[p].last_error = NoError) =>
          held'[p].available_at <= held'[p].at]_vars

\* C10: with calls issued one at a time and no lease expiring, a fail_task with
\* retry_delay_seconds = 0 on a task delivered with attempts k, k + 1 below
\* max_attempts, leaves it pending, available and (on Redis) in the ready list
\* with attempts k + 1; a claim whose filter accepts an available pending task
\* does not come back empty, and what it returns is such a task with its
\* stored attempts; the fail that brings attempts to max_attempts leaves the
\* record failed, and no claim returns a failed record.
C10_ImmediateRetry ==
    [][\A p \in Procs :
          /\ (FailReturns(p) /\ loc[p].args.retry_delay = 0
                 /\ held[p].attempts + 1 < loc[p].args.max_attempts) =>
                 LET rec == store'[loc[p].id] IN
                 /\ rec.status = STATUS_PENDING
                 /\ rec.attempts = held[p].attempts + 1
                 /\ rec.available_at <= now
                 /\ backend = "redis" => loc[p].id \in SeqSet(ready')
          /\ (FailReturns(p) /\ held[p].attempts + 1 >= loc[p].args.max_attempts) =>
                 store'[loc[p].id].status = STATUS_FAILED
          /\ ReturnsNone(p) =>
                 ~ \E id \in DOMAIN store :
                       /\ store[id].status = STATUS_PENDING
                       /\ store[id].available_at <= now
                       /\ ~Excluded(TaskTypesOf(p), store[id])
          /\ Returns(p) =>
                 /\ held'[p].task_id \in DOMAIN store
                 /\ store[held'[p].task_id].status = STATUS_PENDING
                 /\ store[held'[p].task_id].available_at <= now
                 /\ ~Excluded(TaskTypesOf(p), store[held'[p].task_id])
                 /\ held'[p].attempts = store[held'[p].task_id].attempts]_vars

\* The entity_extract task, preloaded fresh, is delivered again with attempts 1
\* at the very time its retry made it available.
C10_Witness ==
    \E p \in Procs :
        /\ pc[p] = "handler"
        /\ held[p].task_type = "entity_extract"
        /\ held[p].attempts = 1
        /\ held[p].available_at = held[p].at

\* The worker's call after a handler returns in one step: complete_task, or a
\* fail_task that finds no record.
CallReturnsAtOnce(p) == pc[p] = "handler" /\ pc'[p] = "idle"

\* C11: when complete_task returns, the queue holds no record and no index
\* entry for the task_id, whatever the record's status was and whether or not
\* it existed, and every other record is as it was.
C11_CompleteRemoves ==
    [][\A p \in Procs : CallReturnsAtOnce(p) =>
          LET id == held[p].task_id IN
          /\ id \notin DOMAIN store'
          /\ DOMAIN store' = DOMAIN store \ {id}
          /\ \A o \in DOMAIN store' : store'[o] = store[o]
          /\ backend = "redis" =>
                 /\ id \notin SeqSet(ready') \cup DOMAIN delayed' \cup DOMAIN inprog'
                 /\ ready' = LRem(ready, id)
                 /\ \A o \in DOMAIN delayed' : delayed'[o] = delayed[o]
                 /\ \A o \in DOMAIN inprog' : inprog'[o] = inprog[o]]_vars

\* A worker has completed the task another worker still holds, next to a
\* second record: the holder's own complete_task will meet an absent id.
C11_Witness ==
    \E p \in Procs :
        /\ pc[p] = "handler"
        /\ held[p].task_id \notin DOMAIN store
        /\ store # EmptyMap

\* C12: whenever both queues have been given the same calls, a poll has the
\* same outcome on both (nothing, or the same task_id with the same attempts
\* and last_error), and both hold the same tasks with the same status, attempts
\* and last_error.
C12_BackendsAgree ==
    /\ \A p \in Procs :
          (twin.pc[p] \in {"handler", "sleep"} /\ pc[p] \in {"handler", "sleep"}) =>
              /\ twin.pc[p] = pc[p]
              /\ pc[p] = "handler" =>
                     /\ twin.held[p].task_id = held[p].task_id
                     /\ twin.held[p].attempts = held[p].attempts
                     /\ twin.held[p].last_error = held[p].last_error
    /\ InSync =>
          /\ DOMAIN twin.store = DOMAIN store
          /\ \A id \in DOMAIN store \cap DOMAIN twin.store :
                 /\ twin.store[id].status = store[id].status
                 /\ twin.store[id].attempts = store[id].attempts
                 /\ twin.store[id].last_error = store[id].last_error

\* C13: every fail_task write stores the attempts count that was in the record
\* just before the write, plus one, so that no increment is lost: two
\* concurrent fail calls on the same task raise attempts by exactly 2.
C13_FailIncrementsNotLost ==
    [][\A p \in Procs :
          (FailWrites(p) /\ loc[p].id \in DOMAIN store) =>
              store'[loc[p].id].attempts = store[loc[p].id].attempts + 1]_vars

\* C14: under every configuration a task queued by the mail-ingestion producer
\* is placed in the queue target the processing worker polls: its record is
\* never in the Redis queue or in a database file other than the worker's.
C14_OneQueue ==
    \A cid \in MailContentIds :
        LET id == ComputeTaskId("semantic_index", ContentPayload(cid))
        IN /\ id \notin DOMAIN store
           /\ \A f \in DOMAIN files \ {WorkerTarget(config)} : id \notin DOMAIN files[f]

\* The task_queue table of the database the processing worker polls.
WorkerTable == files[WorkerTarget(config)]

\* C15: a worker that was given a task leaves its handler by exactly one call
\* for that task_id, complete_task (the row is deleted; only for a task type
\* that has a handler) or fail_task (the row stays, attempts one higher), and
\* only then polls again; a worker whose poll returned nothing changes no row
\* before its next poll.
C15_WorkerOutcome ==
    [][\A p \in Procs :
          /\ (pc[p] = "handler" /\ pc'[p] # "handler" /\ held[p].task_id \in DOMAIN WorkerTable) =>
                LET id == held[p].task_id
                    completed == id \notin DOMAIN WorkerTable'
                    failed == /\ id \in DOMAIN WorkerTable'
                              /\ WorkerTable'[id].attempts = WorkerTable[id].attempts + 1
                IN /\ completed \/ failed
                   /\ completed => held[p].task_type \in SupportedTaskTypes
                   /\ pc'[p] = "idle"
                   /\ held'[p] = NoTask
          /\ (pc[p] = "idle" /\ pc'[p] # "idle") => held[p] = NoTask
          /\ (pc[p] = "sleep" /\ pc'[p] # "sleep") => (pc'[p] = "idle" /\ files' = files)]_vars

\* A worker was given a task of a type it has no handler for and has reported
\* it failed.
C15_Witness ==
    \E p \in Procs, id \in DOMAIN WorkerTable :
        /\ WorkerTable[id].task_type \notin SupportedTaskTypes
        /\ WorkerTable[id].attempts = 1
        /\ pc[p] = "idle"

\* C16: the stored last_error of every task is at most 1024 characters long,
\* and the fail_task call that leaves a task failed leaves its record in place
\* with last_error equal to the first 1024 characters of that call's error.
C16_LastErrorBounded ==
    [][/\ \A id \in DOMAIN store' : store'[id].last_error.len <= LastErrorLimit
       /\ \A p \in Procs :
             (FailWrites(p) /\ store'[loc[p].id].status = STATUS_FAILED) =>
                 LET error == loc[p].args.error
                 IN /\ FailReturns(p)
                    /\ store'[loc[p].id].last_error =
                           [text |-> error.text,
                            len |-> IF error.len > 1024 THEN 1024 ELSE error.len]]_vars

\* A task has been failed for the second time, with an error longer than the
\* limit, and its record holds the first 1024 characters of it.
C16_Witness ==
    \E id \in DOMAIN store, e \in Errors :
        /\ store[id].status = STATUS_FAILED
        /\ e.len > LastErrorLimit
        /\ store[id].last_error = [text |-> e.text, len |-> LastErrorLimit]
        /\ store[id].attempts = 2
        /\ \E p \in Procs : held[p] = NoTask /\ pc[p] = "idle"

\* The fail_task call of some worker writes the record of id in this step,
\* with attempts one higher than stored.
FailIncrements(id) ==
    \E p \in Procs :
        /\ FailWrites(p)
        /\ loc[p].id = id
        /\ store'[id].attempts = store[id].attempts + 1

\* C17: the stored attempts of a task_id never decreases and changes only in a
\* fail_task call, by exactly +1; enqueue, claim and lease-expiry recovery
\* leave it unchanged.
C17_AttemptsMonotone ==
    [][\A id \in DOMAIN store \cap DOMAIN store' :
          \/ store'[id].attempts = store[id].attempts
          \/ FailIncrements(id)]_vars

\* C17, amended: the stored attempts of a task_id changes only in a fail_task
\* call, by exactly +1, or in an enqueue_task call for a failed task, which may
\* reset it to 0; claim, lease-expiry recovery and an enqueue of a task that is
\* not failed leave it unchanged.
C17_AttemptsMonotoneOrRevived ==
    [][\A id \in DOMAIN store \cap DOMAIN store' :
          \/ store'[id].attempts = store[id].attempts
          \/ FailIncrements(id)
          \/ /\ Enqueues
             /\ store[id].status = STATUS_FAILED
             /\ store'[id].attempts = 0]_vars

\* A worker holds a task it was given with attempts = 1, and the task, failed
\* to the ceiling by another worker and enqueued again since, is stored with
\* attempts = 0.
C17_Witness ==
    \E p \in Procs :
        /\ pc[p] = "handler"
        /\ held[p].attempts = 1
        /\ held[p].task_id \in DOMAIN store
        /\ store[held[p].task_id].attempts = 0
        /\ store[held[p].task_id].status = STATUS_PENDING

\* Worker p, polling with a non-empty task_types list, is inside a
\* fetch_and_lock_task call.
FilteredPoll(p) ==
    /\ TaskTypesOf(p) # NoFilter
    /\ pc[p] \notin {"handler", "sleep"}
    /\ pc[p] # "idle" \/ pc'[p] # "idle"

\* C18: a claim with a non-empty task_types list returns only a task whose
\* type is in the list; a pending task of another type keeps its record, its
\* status and its attempts through every step of such a claim, and a task the
\* Redis loop popped and put back is on the ready list or in the delayed set
\* again, where a later claim finds it.
C18_TypeFilter ==
    [][\A p \in Procs :
          /\ (Returns(p) /\ TaskTypesOf(p) # NoFilter) =>
                held'[p].task_type \in TaskTypesOf(p)
          /\ (FilteredPoll(p) /\ pc'[p] # pc[p]) =>
                \A id \in DOMAIN store :
                    (store[id].task_type \notin TaskTypesOf(p)
                     /\ store[id].status = STATUS_PENDING) =>
                        /\ id \in DOMAIN store'
                        /\ store'[id].status = STATUS_PENDING
                        /\ store'[id].attempts = store[id].attempts
          /\ (pc[p] = "skip_resched" /\ pc'[p] # pc[p] /\ loc[p].id \in DOMAIN store) =>
                /\ store'[loc[p].id].status = STATUS_PENDING
                /\ \/ \E i \in 1..Len(ready') : ready'[i] = loc[p].id
                   \/ loc[p].id \in DOMAIN delayed']_vars

\* The Redis loop of a filtered claim, begun on a ready list of two tasks, has
\* popped a pending task of another type and put it back at the tail.
C18_Witness ==
    \E p \in Procs :
        /\ backend = "redis"
        /\ TaskTypesOf(p) # NoFilter
        /\ pc[p] = "lpop"
        /\ loc[p].left = 1
        /\ Len(ready) = 2
        /\ ready[2] \in DOMAIN store
        /\ store[ready[2]].task_type \notin TaskTypesOf(p)
        /\ store[ready[2]].status = STATUS_PENDING

\* The letters of a target up to position n read, whatever their case, as the
\* first n letters of scheme.
ReadsAs(target, scheme, n) ==
    /\ Len(target) >= n
    /\ \A i \in 1..n :
          \E c \in {SubSeq(scheme, i, i)} \cup
                   {u \in {"R", "E", "D", "I", "S", "U", "N", "X"} :
                        LowerChar(u) = SubSeq(scheme, i, i)} :
              SubSeq(target, i, i) = c

\* C19: every dispatcher sends a target to the Redis backend exactly when the
\* target, lower-cased, starts with redis://, rediss:// or unix://, and to the
\* SQLite backend otherwise; one target gets the same backend from enqueue_task,
\* fetch_and_lock_task, complete_task and fail_task.
C19_BackendSelection ==
    [][call'.op # "none" =>
          /\ call'.backend = (IF \/ ReadsAs(call'.target, "redis://", 8)
                                 \/ ReadsAs(call'.target, "rediss://", 9)
                                 \/ ReadsAs(call'.target, "unix://", 7)
                              THEN "redis" ELSE "sqlite")
          /\ call.op # "none" => call'.backend = call.backend]_vars

\* fail_task has sent a target whose scheme is written in capitals to the
\* Redis backend.
C19_Witness ==
    /\ call.op = "fail_task"
    /\ call.target = "REDIS://localhost:6379/0"
    /\ call.backend = "redis"

\* C20: a claim, complete or fail of a worker changes no database file other
\* than the one the worker polls, and the task a claim returns is a row of that
\* file; an enqueue changes at most the one file its target names.
C20_NamespacesIsolated ==
    [][/\ \A p \in Procs :
             pc'[p] # pc[p] =>
                 \A f \in DOMAIN files \ {WorkerTarget(config)} : files'[f] = files[f]
       /\ \A p \in Procs :
             Returns(p) =>
                 /\ held'[p].task_id \in DOMAIN WorkerTable
                 /\ WorkerTable'[held'[p].task_id].status = STATUS_IN_PROGRESS
       /\ Enqueues =>
             /\ Cardinality({f \in DOMAIN files : files'[f] # files[f]}) <= 1
             /\ \A f \in DOMAIN files \ {QueueTarget(config), config.database_path} :
                    files'[f] = files[f]]_vars

\* Two database files hold tasks: a worker holds a task of the file it polls,
\* claimed again after one fail, while a task in another file is as enqueued.
C20_Witness ==
    \E f \in DOMAIN files \ {WorkerTarget(config)}, id \in DOMAIN WorkerTable :
        /\ \E other \in DOMAIN files[f] :
              /\ files[f][other].status = STATUS_PENDING
              /\ files[f][other].attempts = 0
        /\ WorkerTable[id].attempts = 1
        /\ \E p \in Procs : pc[p] = "handler" /\ held[p].task_id = id

\* C21: the handler of a semantic_index task raises, having enqueued nothing,
\* when the payload has no content_id; it returns, having enqueued nothing,
\* when the indexer reports no content; and when the indexer reports the
\* content processed it makes exactly one enqueue_task call, which adds or
\* renews the entity_extract task of the same content_id and touches no other
\* row, and then returns.
C21_SemanticChaining ==
    [][\A p \in Procs :
          (held[p] # NoTask /\ held[p].task_type = "semantic_index") =>
              /\ (pc[p] = "handler" /\ pc'[p] # "handler") =>
                    LET cid == PayloadGet(held[p].payload, "content_id")
                        processed == loc'[p].args.processed
                    IN /\ files' = files
                       /\ cid \in {NoValue, ""} => pc'[p] = "raised"
                       /\ (cid \notin {NoValue, ""} /\ processed = 0) => pc'[p] = "returned"
                       /\ (cid \notin {NoValue, ""} /\ processed > 0) =>
                              pc'[p] = "enqueueing"
                       /\ pc'[p] = "enqueueing" =>
                              (cid \notin {NoValue, ""} /\ processed > 0)
              /\ (pc[p] = "enqueueing" /\ pc'[p] # pc[p]) =>
                    LET cid == PayloadGet(held[p].payload, "content_id")
                        id == <<"entity_extract", <<<<"content_id", cid>>>>>>
                    IN /\ pc'[p] = "returned"
                       /\ DOMAIN WorkerTable' = DOMAIN WorkerTable \cup {id}
                       /\ WorkerTable'[id].task_type = "entity_extract"
                       /\ WorkerTable'[id].payload = <<<<"content_id", cid>>>>
                       /\ WorkerTable'[id].status = STATUS_PENDING
                       /\ \A o \in DOMAIN WorkerTable \ {id} : WorkerTable'[o] = WorkerTable[o]
                       /\ \A f \in DOMAIN files \ {WorkerTarget(config)} :
                              files'[f] = files[f]]_vars

\* The handler of a semantic_index task has returned after its indexer
\* processed the content, and the entity_extract task of the content is queued.
C21_Witness ==
    \E p \in Procs :
        /\ pc[p] = "returned"
        /\ held[p].task_type = "semantic_index"
        /\ loc[p].args.processed = 1
        /\ <<"entity_extract", <<<<"content_id", "cid-1">>>>>> \in DOMAIN WorkerTable
        /\ Cardinality(DOMAIN WorkerTable) = 2

\* C22: the handler of an entity_extract task whose builder processed at least
\* one segment makes exactly three enqueue_task calls for the same content_id,
\* lab_results, then financial_records, then medical_events, and returns; when
\* the builder processed nothing it returns having enqueued nothing.
C22_EntityChaining ==
    [][\A p \in Procs :
          (held[p] # NoTask /\ held[p].task_type = "entity_extract") =>
              LET cid == PayloadGet(held[p].payload, "content_id")
                  nth == 4 - Len(loc[p].batch)
                  stage == <<"lab_results", "financial_records", "medical_events">>
              IN /\ (pc[p] = "handler" /\ pc'[p] # "handler") =>
                        /\ files' = files
                        /\ (cid \notin {NoValue, ""} /\ loc'[p].args.processed = 0) =>
                               pc'[p] = "returned"
                        /\ (cid \notin {NoValue, ""} /\ loc'[p].args.processed > 0) =>
                               (pc'[p] = "enqueueing" /\ Len(loc'[p].batch) = 3)
                        /\ pc'[p] = "enqueueing" => loc'[p].args.processed > 0
                 /\ (pc[p] = "enqueueing" /\ loc'[p] # loc[p]) =>
                        /\ nth \in 1..3
                        /\ \E id \in DOMAIN WorkerTable' :
                              /\ id[1] = stage[nth]
                              /\ PayloadGet(id[2], "content_id") = cid
                              /\ WorkerTable'[id].task_type = stage[nth]
                              /\ DOMAIN WorkerTable' = DOMAIN WorkerTable \cup {id}
                              /\ \A o \in DOMAIN WorkerTable \ {id} :
                                     WorkerTable'[o] = WorkerTable[o]
                        /\ pc'[p] = (IF nth = 3 THEN "returned" ELSE "enqueueing")]_vars

\* The handler of an entity_extract task has returned after its builder
\* processed a segment, and the three follow-up tasks of the content are queued.
C22_Witness ==
    \E p \in Procs :
        /\ pc[p] = "returned"
        /\ held[p].task_type = "entity_extract"
        /\ loc[p].args.processed > 0
        /\ {id[1] : id \in DOMAIN WorkerTable} =
               {"entity_extract", "lab_results", "financial_records", "medical_events"}


\* C23: the only status changes of a stored record are pending to in_progress
\* in the step in which a claim returns that task, in_progress to pending by a
\* fail write below the ceiling or by the stale-lease requeue, in_progress to
\* failed by a fail write that reaches the ceiling, failed to pending by an
\* enqueue, and removal of the record by complete_task.
C23_Lifecycle ==
    [][\A id \in DOMAIN store :
          LET FailWriteOf(p) == FailWrites(p) /\ loc[p].id = id
          IN IF id \notin DOMAIN store'
             THEN \E p \in Procs : CallReturnsAtOnce(p) /\ held[p].task_id = id
             ELSE LET a == store[id].status
                      b == store'[id].status
                  IN \/ a = b
                     \/ /\ a = STATUS_PENDING /\ b = STATUS_IN_PROGRESS
                        /\ \E p \in Procs : Returns(p) /\ held'[p].task_id = id
                     \/ /\ a = STATUS_IN_PROGRESS /\ b = STATUS_PENDING
                        /\ \E p \in Procs :
                              \/ FailWriteOf(p) /\ loc[p].args.attempts < loc[p].args.max_attempts
                              \/ pc[p] = "requeue_set" /\ loc[p].id = id
                     \/ /\ a = STATUS_IN_PROGRESS /\ b = STATUS_FAILED
                        /\ \E p \in Procs :
                              FailWriteOf(p) /\ loc[p].args.attempts >= loc[p].args.max_attempts
                     \/ a = STATUS_FAILED /\ b = STATUS_PENDING /\ Enqueues]_vars

\* C24: a record whose status is failed keeps that status through every step
\* of fail_task and fetch_and_lock_task; its status changes only in an enqueue
\* step, and the record disappears only by complete_task.
C24_TerminalStays ==
    [][\A id \in DOMAIN store :
          (store[id].status = STATUS_FAILED /\ ~Enqueues) =>
             IF id \in DOMAIN store'
             THEN store'[id].status = STATUS_FAILED
             ELSE \E p \in Procs : CallReturnsAtOnce(p) /\ held[p].task_id = id]_vars

\* C25: the Task a claim returns carries the locked_at that the same call
\* stored in the record: the time of the call, never null and never the
\* locked_at of an earlier lease.
C25_FreshLease ==
    [][\A p \in Procs : Returns(p) =>
          LET id == held'[p].task_id IN
          /\ held'[p].locked_at # NoTime
          /\ held'[p].locked_at = held'[p].at
          /\ held'[p].locked_at = store'[id].locked_at]_vars

\* C26: on Redis, with calls interleaved at will, once every call has returned
\* each task_id occurs at most once in the ready list and in at most one of the
\* ready list, the delayed set and the in-progress set.
C26_SinglePlacement ==
    (backend = "redis" /\ BetweenCalls) =>
       /\ \A i, j \in 1..Len(ready) : ready[i] = ready[j] => i = j
       /\ SeqSet(ready) \cap DOMAIN delayed = {}
       /\ SeqSet(ready) \cap DOMAIN inprog = {}
       /\ DOMAIN delayed \cap DOMAIN inprog = {}

\* C27: on Redis, whenever no call is under way, every pending record has its
\* id in the ready list or the delayed set, every in_progress record has its
\* id in the in-progress set, and every failed record has its id in none of
\* the three.
C27_RecordIndexAgree ==
    (backend = "redis" /\ BetweenCalls) =>
       \A id \in DOMAIN store :
          /\ store[id].status = STATUS_PENDING =>
                id \in SeqSet(ready) \cup DOMAIN delayed
          /\ store[id].status = STATUS_IN_PROGRESS => id \in DOMAIN inprog
          /\ store[id].status = STATUS_FAILED =>
                id \notin SeqSet(ready) \cup DOMAIN delayed \cup DOMAIN inprog

\* C28: on Redis, when a worker stops after its claim has popped an id from
\* the ready list (before or after the id was added to the in-progress set, or
\* after the claim returned) and lease_seconds can still pass, another worker's
\* claim eventually returns that task, unless the record is deleted first; no
\* enqueue takes place.
C28_CrashRecovery ==
    \A p \in Procs, id \in {TaskX, TaskY} :
       (/\ backend = "redis"
        /\ pc[p] = "crashed"
        /\ id \in DOMAIN store
        /\ \E q \in Procs \ {p} : ~Excluded(TaskTypesOf(q), store[id])
        /\ \/ /\ loc[p].args.at \in {"get", "skip_set", "skip_resched", "lock"}
              /\ loc[p].id = id
              /\ loc[p].now + loc[p].lease <= RecoveryHorizon
           \/ /\ loc[p].args.at = "handler"
              /\ held[p].task_id = id
              /\ held[p].at + held[p].lease <= RecoveryHorizon)
       ~> (\/ id \notin DOMAIN store
           \/ \E q \in Procs \ {p} : pc[q] = "handler" /\ held[q].task_id = id)

\* C29: with workers scheduled fairly, one of which accepts every task type,
\* a record that is pending with available_at at or before the current time,
\* after the last enqueue, is eventually claimed (a claim alone sets a pending
\* record in_progress, in the step in which it returns the task) unless it is
\* completed first; a retry that postpones the record beyond the last clock
\* reading leaves the question open and is not counted against the property.
C29_EventualDelivery ==
    \A id \in {TaskX, TaskY} :
       (/\ enqueues = MaxEnqueues
        /\ id \in DOMAIN store
        /\ store[id].status = STATUS_PENDING
        /\ store[id].available_at <= now)
       ~> (\/ id \notin DOMAIN store
           \/ store[id].status = STATUS_IN_PROGRESS
           \/ store[id].status = STATUS_PENDING /\ store[id].available_at > MaxTime)

\* C30: while the first fetch_and_lock_task call on a Redis queue with an empty
\* ready list is under way, at most one batch of PROMOTION_BATCH_SIZE ids has
\* been moved from the delayed set to the ready list (or popped from it by
\* the call), and due entries beyond the batch are still in the delayed set.
C30_BoundedPromotion ==
    \A p \in Procs :
       (/\ backend = "redis"
        /\ pc[p] \notin {"idle", "sleep", "handler", "crashed"}
        /\ \A q \in Procs \ {p} : pc[q] = "idle" /\ held[q] = NoTask)
       => Cardinality(DOMAIN store) - Cardinality(DOMAIN delayed) <= PROMOTION_BATCH_SIZE

\* C31: on Redis, with calls issued one at a time, the pop loop of a claim pops
\* only while pops are left of the ready list's length read by LLEN, counting
\* each pop, and returns None when none is left; a pop that ends in a skip or
\* in a return of None leaves the ids of the ready list (with the id in hand)
\* as they were, so a claim that skips every ready task returns None with the
\* same ids on the ready list.
C31_PopLoopBounded ==
    [][\A p \in Procs :
          LET InLoop == {"lpop", "get", "skip_set", "skip_resched"}
              Hand == IF pc[p] \in {"get", "skip_set", "skip_resched"}
                      THEN {loc[p].id} ELSE {}
              HandAfter == IF pc'[p] \in {"get", "skip_set", "skip_resched"}
                           THEN {loc'[p].id} ELSE {}
          IN /\ (pc[p] = "llen" /\ pc'[p] = "lpop") => loc'[p].left = Len(ready)
             /\ (pc[p] = "lpop" /\ pc'[p] = "get") =>
                   loc[p].left >= 1 /\ loc'[p].left = loc[p].left - 1
             /\ (pc[p] \in InLoop /\ pc'[p] \in InLoop /\ pc'[p] # "get") =>
                   loc'[p].left = loc[p].left
             /\ (pc[p] \in InLoop /\ pc'[p] = "lpop") => loc[p].left >= 1
             /\ (pc[p] \in InLoop /\ pc'[p] = "sleep") => loc[p].left = 0 \/ ready = <<>>
             /\ (pc[p] \in InLoop /\ pc'[p] \in InLoop \cup {"sleep"}) =>
                   SeqSet(ready') \cup HandAfter = SeqSet(ready) \cup Hand]_vars

\* A claim has popped the last id the ready list held at LLEN, found it
\* excluded by its task_types and is about to put it back and return None.
C31_Witness ==
    /\ backend = "redis"
    /\ pc["w2"] = "skip_resched"
    /\ loc["w2"].left = 0
    /\ loc["w2"].id = TaskY
    /\ TaskY \notin SeqSet(ready)

\* C32: with workers and producer scheduled fairly, an enqueue_task call on
\* Redis that has started its WATCH/GET/EXEC transaction eventually returns,
\* whatever the workers write to the task record in the meantime.
C32_EnqueueReturns == (call.op \in {"watch", "dirty"}) ~> (call.op = "none")

\* C33: with one worker that passes no task_types and every enqueue left to
\* its default available_at, when both tasks have been enqueued once each (as
\* many records as enqueue calls), neither has been failed and they were
\* enqueued at different times, the claim returns the task enqueued first,
\* the one of smaller available_at, on both backends.
C33_FreshFifo ==
    [][(/\ Returns("w1")
        /\ DOMAIN store = {TaskX, TaskY}
        /\ enqueues = Cardinality(DOMAIN store)
        /\ \A id \in DOMAIN store :
              store[id].attempts = 0 /\ store[id].status = STATUS_PENDING
        /\ store[TaskX].available_at # store[TaskY].available_at)
       => \A id \in DOMAIN store :
             store[held'["w1"].task_id].available_at <= store[id].available_at]_vars

\* The worker holds the task enqueued at time 0 while the task enqueued at
\* time 1 is still pending.
C33_Witness ==
    /\ pc["w1"] = "handler"
    /\ DOMAIN store = {TaskX, TaskY}
    /\ enqueues = 2
    /\ \E id \in DOMAIN store :
          /\ id # held["w1"].task_id
          /\ store[id].status = STATUS_PENDING
          /\ store[id].available_at = 1
          /\ store[id].attempts = 0
    /\ store[held["w1"].task_id].available_at = 0
    /\ store[held["w1"].task_id].locked_at = 1

\* C34: an enqueue_task call for a pending task with an available_at later
\* than the stored one leaves the record pending with the later available_at
\* (on Redis with its id in the delayed set and off the ready list when that
\* time is still ahead), and a claim returns a pending task only when its
\* stored available_at is at or before the time of the call, on both backends.
C34_ReenqueuePostpones ==
    [][/\ \A t \in TaskTypes, pl \in Payloads, off \in AvailableOffsets :
             LET id == ComputeTaskId(t, pl)
                 later == IF off = NoTime THEN now ELSE now + off
             IN (/\ Enqueues
                 /\ EnqueueTask(t, pl, off)
                 /\ id \in DOMAIN store
                 /\ store[id].status = STATUS_PENDING
                 /\ later > store[id].available_at) =>
                   /\ store'[id].status = STATUS_PENDING
                   /\ store'[id].available_at = later
                   /\ (backend = "redis" /\ later > now) =>
                         id \in DOMAIN delayed' /\ id \notin SeqSet(ready')
       /\ \A p \in Procs :
             (/\ Returns(p)
              /\ held'[p].task_id \in DOMAIN store
              /\ store[held'[p].task_id].status = STATUS_PENDING) =>
                store[held'[p].task_id].available_at <= held'[p].at]_vars

\* A pending task that was eligible at time 0 has been enqueued again, by the
\* second enqueue call, with available_at 1 and waits for it.
C34_Witness ==
    /\ enqueues = 2
    /\ now = 0
    /\ DOMAIN store = {TaskX}
    /\ store[TaskX].status = STATUS_PENDING
    /\ store[TaskX].attempts = 0
    /\ store[TaskX].available_at = 1
    /\ \A p \in Procs : pc[p] = "idle"
    /\ backend = "redis" => TaskX \in DOMAIN delayed /\ ready = <<>>

\* C35: with calls interleaved at will, a task_id that has no record (it was
\* completed, or never enqueued) gets a record, or a place in the ready list,
\* the delayed set or the in-progress set, only in the step of an enqueue_task
\* call: no step of a fail_task or fetch_and_lock_task call brings it back.
C35_CompleteFinal ==
    [][\A id \in {TaskX, TaskY} :
          (id \notin DOMAIN store /\ ~Enqueues) =>
             /\ id \notin DOMAIN store'
             /\ id \in SeqSet(ready') => id \in SeqSet(ready)
             /\ id \in DOMAIN delayed' => id \in DOMAIN delayed
             /\ id \in DOMAIN inprog' => id \in DOMAIN inprog]_vars
====
